---- MODULE Spec2Model ----
(***************************************************************************)
(* Escrow suite: the Make and Take instruction handlers, the escrow record *)
(* and the Dutch-auction price, over a ledger of token holding accounts.   *)
(* One action per instruction; a failed instruction leaves every account   *)
(* as it was (the host runs each instruction atomically).                  *)
(***************************************************************************)
EXTENDS Integers, Sequences, FiniteSets, TLC

VARIABLES
    escrows,    \* escrow address -> Escrow record (initialized = the account holds data)
    balance,    \* token holding account -> amount
    clock,      \* Clock sysvar, unix_timestamp
    last,       \* the last instruction processed: handler and result, and the
                \* accounts and payload of one that took effect
    fills,      \* per escrow: totals at Make and what the Takes have moved since
    quote,      \* the last price read off an auction record
    wire        \* the instruction data last submitted, as bytes, and its decoding

vars == <<escrows, balance, clock, last, fills, quote, wire>>

----------------------------------------------------------------------------
\* Bounds of the model

MaxAmountA == 3         \* largest token_a_amount a Make payload carries
MaxAmountB == 3         \* largest small token_b_amount a payload carries
MaxPrice == 2           \* largest start_price / end_price of an auction payload
LargeAmountB == 30000   \* one token_b_amount above the basis-point scale
MaxDuration == 2        \* longest auction duration
MaxTime == 2            \* the clock stops advancing here
U64_MAX == 1073741823   \* the largest value of the model's unsigned word, standing for u64::MAX
MaxSeed == 0            \* seeds 0..MaxSeed have an escrow slot and a vault
MaxTakes == 4           \* Takes counted per escrow when fills are tracked

----------------------------------------------------------------------------
\* EscrowType (states/escrows.rs) and result codes (error.rs)

Simple == 0
Partial == 1
DutchAuction == 2
Oracle == 3

EscrowTypes == {Simple, Partial, DutchAuction, Oracle}

Ok == "Ok"
InvalidMaker == "InvalidMaker"
EscrowAlreadyExists == "EscrowAlreadyExists"
PdaMismatch == "PdaMismatch"
InvalidTokenOwner == "InvalidTokenOwner"
InvalidMakerTokenAccount == "InvalidMakerTokenAccount"
InvalidTokenMint == "InvalidTokenMint"
InvalidEscrowType == "InvalidEscrowType"
InsufficientFunds == "InsufficientFunds"
\* ProgramError values raised outside EscrowErrorCode
InvalidInstructionData == "InvalidInstructionData"
InvalidAccountData == "InvalidAccountData"
TokenProgramError == "TokenProgramError"
\* the instruction aborted on an arithmetic fault (overflow check, division by zero)
ProgramAbort == "ProgramAbort"
\* create_program_address's own error: the seeds derive no valid program address
InvalidSeeds == "InvalidSeeds"

BASIS_POINTS == 10000

----------------------------------------------------------------------------
\* Keys, addresses and token holding accounts

MakerKey == <<"maker">>
TakerKey == <<"taker">>
Users == {MakerKey, TakerKey}
\* A key that is neither party's, passed in the maker's place
StrangerKey == <<"stranger">>

MintA == <<"mintA">>
MintB == <<"mintB">>
Mints == {MintA, MintB}
TokenProgramId == <<"token_program">>
SystemProgramId == <<"system_program">>

\* Owner program of an account passed as a mint descriptor
AccountOwnerProgram(key) == IF key \in Mints THEN TokenProgramId ELSE SystemProgramId

PREFIX == "Escrow"
CanonicalBump == 255
InvalidBump == CanonicalBump - 2
Bumps == {CanonicalBump - 1, CanonicalBump}
Seeds == 0 .. MaxSeed
SeedValues == 0 .. (MaxSeed + 1)

\* C23 mutant: the bump takes no part in the derivation
create_program_address_WithoutBump(owner, seed, bump) == <<PREFIX, owner, seed, 0>>

\* pubkey::create_program_address over [PREFIX, owner, seed, bump]: deterministic
\* and collision free
create_program_address(owner, seed, bump) == <<PREFIX, owner, seed, bump>>

\* create_program_address returns an address only when the hash of the seeds is
\* not a point of the curve; which seed lists fail is fixed by the hash. Here the
\* parties' lists with bumps CanonicalBump and CanonicalBump - 1 succeed, the
\* bump below them and every list of StrangerKey fail.
OffCurve(owner, seed, bump) == owner \in Users /\ bump \in Bumps

\* Every address a record may be looked up at
EscrowAddresses ==
    {create_program_address(o, s, b) : o \in Users, s \in SeedValues, b \in Bumps}

\* The slots the maker's escrows are created at (find_program_address in the tests)
EscrowSlots == {create_program_address(MakerKey, s, CanonicalBump) : s \in Seeds}

\* get_associated_token_address: the holding account of `owner` for `mint`
Ata(owner, mint) == <<owner, mint>>
OwnerOf(account) == account[1]
MintOf(account) == account[2]

TokenAccounts ==
    {Ata(o, m) : o \in Users \cup EscrowSlots, m \in Mints}

\* An address holding no token account
MissingAccount == Ata(<<"nobody">>, MintA)

----------------------------------------------------------------------------
\* The Escrow record (states/escrows.rs)

\* An escrow address whose account holds no data yet
EmptyEscrow ==
    [initialized |-> FALSE, maker_pubkey |-> <<"none">>, seed |-> 0,
     escrow_type |-> Simple, token_a_mint |-> <<"none">>, token_a_amount |-> 0,
     token_b_mint |-> <<"none">>, token_b_amount |-> 0, bump |-> 0,
     start_price |-> 0, end_price |-> 0, start_time |-> 0, duration |-> 0,
     end_time |-> 0]

\* Escrow::validate_escrow_pda
\* C18 mutant: the derived address is not compared with the supplied one
validate_escrow_pda_Unchecked(pda, owner, bump, seed) == Ok

validate_escrow_pda(pda, owner, bump, seed) ==
    IF ~OffCurve(owner, seed, bump) THEN InvalidSeeds
    ELSE IF create_program_address(owner, seed, bump) # pda THEN PdaMismatch
    ELSE Ok

\* Escrow::initialize: the account was zero-filled by CreateAccount; the auction
\* fields are written for DutchAuction only
initialize(ix_data, seed, token_a_mint, token_b_mint, maker_pubkey, start_time, end_time) ==
    LET base == [EmptyEscrow EXCEPT
                    !.initialized = TRUE,
                    !.maker_pubkey = maker_pubkey,
                    !.seed = seed,
                    !.escrow_type = ix_data.escrow_type,
                    !.token_a_mint = token_a_mint,
                    !.token_a_amount = ix_data.token_a_amount,
                    !.token_b_mint = token_b_mint,
                    !.token_b_amount = ix_data.token_b_amount,
                    !.bump = ix_data.bump]
    IN  IF ix_data.escrow_type = DutchAuction
        THEN [base EXCEPT
                 !.start_price = ix_data.token_b_amount,
                 !.end_price = ix_data.end_price,
                 !.duration = ix_data.duration,
                 !.start_time = start_time,
                 !.end_time = end_time]
        ELSE base

\* The subtraction start_price - end_price of calculate_dutch_price. With
\* end_price > start_price the u64 subtraction overflows: the build either
\* aborts the instruction or wraps (take_dutch takes both outcomes).
PriceDropDefined(escrow) == escrow.start_price >= escrow.end_price

\* C11 mutant: the elapsed time is counted from 0, not from start_time
calculate_dutch_price_ElapsedFromZero(escrow, current_time) ==
    IF escrow.escrow_type = DutchAuction
    THEN IF current_time <= escrow.start_time THEN escrow.start_price
         ELSE IF current_time >= escrow.end_time THEN escrow.end_price
         ELSE LET time_elapsed == current_time
                  total_duration == escrow.end_time - escrow.start_time
                  price_drop == escrow.start_price - escrow.end_price
                  price_reduction == (price_drop * time_elapsed) \div total_duration
              IN  escrow.start_price - price_reduction
    ELSE escrow.token_b_amount

\* C10 mutant: the price drop is divided by the duration before it is scaled
calculate_dutch_price_DivideFirst(escrow, current_time) ==
    IF escrow.escrow_type = DutchAuction
    THEN IF current_time <= escrow.start_time THEN escrow.start_price
         ELSE IF current_time >= escrow.end_time THEN escrow.end_price
         ELSE LET time_elapsed == current_time - escrow.start_time
                  total_duration == escrow.end_time - escrow.start_time
                  price_drop == escrow.start_price - escrow.end_price
                  price_reduction == (price_drop \div total_duration) * time_elapsed
              IN  escrow.start_price - price_reduction
    ELSE escrow.token_b_amount

\* C31 mutant: the product is formed in the 64-bit word, where it wraps
calculate_dutch_price_NarrowProduct(escrow, current_time) ==
    IF escrow.escrow_type = DutchAuction
    THEN IF current_time <= escrow.start_time THEN escrow.start_price
         ELSE IF current_time >= escrow.end_time THEN escrow.end_price
         ELSE LET time_elapsed == current_time - escrow.start_time
                  total_duration == escrow.end_time - escrow.start_time
                  price_drop == escrow.start_price - escrow.end_price
                  price_reduction ==
                      ((price_drop * time_elapsed) % (U64_MAX + 1)) \div total_duration
              IN  escrow.start_price - price_reduction
    ELSE escrow.token_b_amount

\* Escrow::calculate_dutch_price. The product is formed in u128, twice the width
\* of its factors, so it is the exact product; `price_reduction as u64` keeps the
\* low word of the quotient.
calculate_dutch_price(escrow, current_time) ==
    IF escrow.escrow_type = DutchAuction
    THEN IF current_time <= escrow.start_time THEN escrow.start_price
         ELSE IF current_time >= escrow.end_time THEN escrow.end_price
         ELSE LET time_elapsed == current_time - escrow.start_time
                  total_duration == escrow.end_time - escrow.start_time
                  price_drop == escrow.start_price - escrow.end_price
                  price_reduction ==
                      ((price_drop * time_elapsed) \div total_duration) % (U64_MAX + 1)
              IN  escrow.start_price - price_reduction
    ELSE escrow.token_b_amount

\* Escrow::get_required_token_b_amount
get_required_token_b_amount(escrow, current_time) ==
    IF escrow.escrow_type = DutchAuction
    THEN calculate_dutch_price(escrow, current_time)
    ELSE escrow.token_b_amount

----------------------------------------------------------------------------
\* The token program's Transfer, as the handlers invoke it: the source must hold
\* the amount, both accounts must be of one mint, and the authority must own the
\* source and have signed. A transfer of an account to itself moves nothing.

TransferResult(bal, from, to, authority, signed, amount) ==
    IF from \notin TokenAccounts \/ to \notin TokenAccounts THEN TokenProgramError
    ELSE IF bal[from] < amount THEN TokenProgramError
    ELSE IF MintOf(from) # MintOf(to) THEN TokenProgramError
    ELSE IF OwnerOf(from) # authority \/ ~signed THEN TokenProgramError
    ELSE Ok

\* C24 mutant: the destination is credited and the source is not debited
TransferBalances_CreditOnly(bal, from, to, amount) ==
    IF from = to THEN bal
    ELSE [bal EXCEPT ![to] = @ + amount]

TransferBalances(bal, from, to, amount) ==
    IF from = to THEN bal
    ELSE [bal EXCEPT ![from] = @ - amount, ![to] = @ + amount]

----------------------------------------------------------------------------
\* An instruction's outcome: its result and the accounts as the handler leaves
\* them. The host discards the accounts of a failed instruction.

Outcome(res, esc, bal) == [res |-> res, escrows |-> esc, balance |-> bal]
Fail(res) == Outcome(res, escrows, balance)

\* The instruction as the host commits it: all of its writes, or none
Atomic(out) == IF out.res = Ok THEN out ELSE Fail(out.res)

\* states::try_from_account_info_mut: the account's data read as an Escrow
try_from_account_info_mut(escrow_account) ==
    IF escrows[escrow_account].initialized THEN Ok ELSE InvalidAccountData

\* TokenAccount::from_account_info_unchecked: the account's data read as a token account
from_account_info_unchecked(account) ==
    IF account \in TokenAccounts THEN Ok ELSE InvalidAccountData

----------------------------------------------------------------------------
\* make_escrow (instructions/make.rs)

\* C2 mutant: the deposit is the token-B amount of the payload
MakeDepositAmount_TokenB(ix_data) == ix_data.token_b_amount

\* The amount of the deposit into the vault
MakeDepositAmount(ix_data) == ix_data.token_a_amount

\* C15 mutant: the target slot always passes for empty
data_is_empty_Always(escrow_account) == TRUE

\* escrow_account.data_is_empty(): no record has been created at the address
data_is_empty(escrow_account) == ~escrows[escrow_account].initialized

\* `now + ix_data.duration` leaves the unsigned word
EndTimeOverflows(now, duration) == now + duration > U64_MAX

\* C27 mutant: the target slot is examined before the maker's signature
make_escrow_SlotBeforeSigner(c, wraps) ==
    IF ~data_is_empty(c.escrow_account) THEN Fail(EscrowAlreadyExists)
    ELSE IF ~c.maker_is_signer THEN Fail(InvalidMaker)
    ELSE IF AccountOwnerProgram(c.token_a_mint) # TokenProgramId
            \/ AccountOwnerProgram(c.token_b_mint) # TokenProgramId
         THEN Fail(InvalidTokenOwner)
    ELSE IF c.maker_token_a_ata \notin TokenAccounts THEN Fail(InvalidMakerTokenAccount)
    ELSE IF OwnerOf(c.maker_token_a_ata) # c.maker_account THEN Fail(InvalidTokenOwner)
    ELSE IF ~c.ix.wellformed
         THEN (IF c.ix.aborts THEN Fail(ProgramAbort) ELSE Fail(InvalidInstructionData))
    ELSE IF validate_escrow_pda(c.escrow_account, c.maker_account, c.ix.bump, c.ix.seed) # Ok
         THEN Fail(validate_escrow_pda(c.escrow_account, c.maker_account, c.ix.bump, c.ix.seed))
    ELSE IF /\ c.ix.escrow_type = DutchAuction
            /\ EndTimeOverflows(clock, c.ix.duration)
            /\ ~wraps
         THEN Fail(ProgramAbort)
    ELSE
      LET start_time == IF c.ix.escrow_type = DutchAuction THEN clock ELSE 0
          end_time == IF c.ix.escrow_type = DutchAuction
                      THEN (clock + c.ix.duration) % (U64_MAX + 1) ELSE 0
          escrow == initialize(c.ix, c.ix.seed, c.token_a_mint, c.token_b_mint,
                               c.maker_account, start_time, end_time)
          created == [escrows EXCEPT ![c.escrow_account] = escrow]
          t == TransferResult(balance, c.maker_token_a_ata, c.escrow_token_a_ata,
                              c.maker_account, c.maker_is_signer, MakeDepositAmount(c.ix))
      IN  IF t # Ok THEN Outcome(t, created, balance)
          ELSE Outcome(Ok, created,
                       TransferBalances(balance, c.maker_token_a_ata,
                                        c.escrow_token_a_ata, MakeDepositAmount(c.ix)))

\* wraps: what the build does when `now + ix_data.duration` overflows: the sum
\* wraps around the word (u64 addition without overflow checks), or the
\* instruction aborts
make_escrow(c, wraps) ==
    IF ~c.maker_is_signer THEN Fail(InvalidMaker)
    ELSE IF ~data_is_empty(c.escrow_account) THEN Fail(EscrowAlreadyExists)
    ELSE IF AccountOwnerProgram(c.token_a_mint) # TokenProgramId
            \/ AccountOwnerProgram(c.token_b_mint) # TokenProgramId
         THEN Fail(InvalidTokenOwner)
    ELSE IF c.maker_token_a_ata \notin TokenAccounts THEN Fail(InvalidMakerTokenAccount)
    ELSE IF OwnerOf(c.maker_token_a_ata) # c.maker_account THEN Fail(InvalidTokenOwner)
    ELSE IF ~c.ix.wellformed
         THEN (IF c.ix.aborts THEN Fail(ProgramAbort) ELSE Fail(InvalidInstructionData))
    ELSE IF validate_escrow_pda(c.escrow_account, c.maker_account, c.ix.bump, c.ix.seed) # Ok
         THEN Fail(validate_escrow_pda(c.escrow_account, c.maker_account, c.ix.bump, c.ix.seed))
    ELSE IF /\ c.ix.escrow_type = DutchAuction
            /\ EndTimeOverflows(clock, c.ix.duration)
            /\ ~wraps
         THEN Fail(ProgramAbort)
    ELSE
      LET start_time == IF c.ix.escrow_type = DutchAuction THEN clock ELSE 0
          end_time == IF c.ix.escrow_type = DutchAuction
                      THEN (clock + c.ix.duration) % (U64_MAX + 1) ELSE 0
          escrow == initialize(c.ix, c.ix.seed, c.token_a_mint, c.token_b_mint,
                               c.maker_account, start_time, end_time)
          created == [escrows EXCEPT ![c.escrow_account] = escrow]
          t == TransferResult(balance, c.maker_token_a_ata, c.escrow_token_a_ata,
                              c.maker_account, c.maker_is_signer, MakeDepositAmount(c.ix))
      IN  IF t # Ok THEN Outcome(t, created, balance)
          ELSE Outcome(Ok, created,
                       TransferBalances(balance, c.maker_token_a_ata,
                                        c.escrow_token_a_ata, MakeDepositAmount(c.ix)))

----------------------------------------------------------------------------
\* take_escrow (instructions/take.rs)

\* C7 mutant: the share is divided before it is scaled
PartialPercentage_DivideFirst(requested, remaining_a) ==
    (requested \div remaining_a) * BASIS_POINTS

\* Partial: the share of token B owed for `requested` of the remaining token A,
\* in basis points; the product is a u64 multiplication
PartialPercentage(requested, remaining_a) ==
    ((requested * BASIS_POINTS) % (U64_MAX + 1)) \div remaining_a

\* C5 mutant: token B owed by one division, without the basis-point share
PartialTokenB_OneDivision(requested, remaining_a, remaining_b) ==
    (remaining_b * requested) \div remaining_a

\* C8 mutant: token B owed rounded up
PartialTokenB_RoundUp(requested, remaining_a, remaining_b) ==
    (remaining_b * PartialPercentage(requested, remaining_a) + BASIS_POINTS - 1)
        \div BASIS_POINTS

\* Partial: the token B owed; the product is a u64 multiplication
PartialTokenB(requested, remaining_a, remaining_b) ==
    ((remaining_b * PartialPercentage(requested, remaining_a)) % (U64_MAX + 1))
        \div BASIS_POINTS

\* One of the two u64 products of a Partial Take leaves the word
PartialOverflows(requested, remaining_a, remaining_b) ==
    \/ requested * BASIS_POINTS > U64_MAX
    \/ remaining_b * PartialPercentage(requested, remaining_a) > U64_MAX

\* Simple: the funds check made before the transfers
SimpleInsufficient(escrow, bal, c) ==
    \/ escrow.token_a_amount > bal[c.taker_token_a_ata]
    \/ escrow.token_b_amount > bal[c.taker_token_b_ata]

\* C3 mutant: the taker pays the token-A amount of the record
SimplePayment_TokenA(escrow) == escrow.token_a_amount

\* Simple: the token B the taker pays
SimplePayment(escrow) == escrow.token_b_amount

\* C9 mutant: a request of one unit more than is left passes
PartialOverRequest_OffByOne(ix, escrow) == ix.token_a_amount > escrow.token_a_amount + 1

\* Partial: the request exceeds what the record has left
PartialOverRequest(ix, escrow) == ix.token_a_amount > escrow.token_a_amount

\* DutchAuction: the offer is below the price required now
DutchUnderpaid(ix, required_token_b_amount) == ix.token_b_amount < required_token_b_amount

\* C12 mutant: the taker pays what the payload offered
DutchPayment_Offered(ix, required_token_b_amount) == ix.token_b_amount

\* DutchAuction: the token B the taker pays
DutchPayment(ix, required_token_b_amount) == required_token_b_amount

\* The two transfers every settling variant issues: token A out of the vault under
\* the escrow address's derived signature, then token B from the taker
\* C40 mutant: the record is written before the payment is transferred
SettleTransfers_RecordBeforePayment(esc, c, amount_a, amount_b) ==
    LET escrow == escrows[c.escrow_account]
        pda_signed == create_program_address(c.maker_account, escrow.seed, escrow.bump)
                          = c.escrow_account
        t1 == TransferResult(balance, c.escrow_token_a_ata, c.taker_token_a_ata,
                             c.escrow_account, pda_signed, amount_a)
        bal1 == TransferBalances(balance, c.escrow_token_a_ata, c.taker_token_a_ata, amount_a)
        t2 == TransferResult(bal1, c.taker_token_b_ata, c.maker_token_b_ata,
                             c.taker_account, c.taker_is_signer, amount_b)
        bal2 == TransferBalances(bal1, c.taker_token_b_ata, c.maker_token_b_ata, amount_b)
    IN  IF t1 # Ok THEN Outcome(t1, escrows, balance)
        ELSE IF t2 # Ok THEN Outcome(t2, esc, bal1)
        ELSE Outcome(Ok, esc, bal2)

SettleTransfers(esc, c, amount_a, amount_b) ==
    LET escrow == escrows[c.escrow_account]
        pda_signed == create_program_address(c.maker_account, escrow.seed, escrow.bump)
                          = c.escrow_account
        t1 == TransferResult(balance, c.escrow_token_a_ata, c.taker_token_a_ata,
                             c.escrow_account, pda_signed, amount_a)
        bal1 == TransferBalances(balance, c.escrow_token_a_ata, c.taker_token_a_ata, amount_a)
        t2 == TransferResult(bal1, c.taker_token_b_ata, c.maker_token_b_ata,
                             c.taker_account, c.taker_is_signer, amount_b)
        bal2 == TransferBalances(bal1, c.taker_token_b_ata, c.maker_token_b_ata, amount_b)
    IN  IF t1 # Ok THEN Outcome(t1, escrows, balance)
        ELSE IF t2 # Ok THEN Outcome(t2, escrows, bal1)
        ELSE Outcome(Ok, esc, bal2)

take_simple(escrow, c) ==
    IF SimpleInsufficient(escrow, balance, c) THEN Fail(InsufficientFunds)
    ELSE SettleTransfers(escrows, c, escrow.token_a_amount, SimplePayment(escrow))

\* C25 mutant: the fill also rewrites the record's variant
PartialRecordAfter_Retyped(escrow, take_amount, token_b_amount) ==
    [escrow EXCEPT !.token_a_amount = @ - take_amount,
                   !.token_b_amount = @ - token_b_amount,
                   !.escrow_type = Simple]

\* escrow.token_a_amount -= ix.token_a_amount; escrow.token_b_amount -= token_b_amount
PartialRecordAfter(escrow, take_amount, token_b_amount) ==
    [escrow EXCEPT !.token_a_amount = @ - take_amount,
                   !.token_b_amount = @ - token_b_amount]

\* wraps: what the build does when a product of the share leaves the word: it
\* wraps around, or the instruction aborts
take_partial(escrow, c, wraps) ==
    IF ~c.ix.wellformed THEN Fail(InvalidInstructionData)
    ELSE IF PartialOverRequest(c.ix, escrow) THEN Fail(InsufficientFunds)
    ELSE IF escrow.token_a_amount = 0 THEN Fail(ProgramAbort)
    ELSE IF /\ PartialOverflows(c.ix.token_a_amount, escrow.token_a_amount,
                                escrow.token_b_amount)
            /\ ~wraps
         THEN Fail(ProgramAbort)
    ELSE
      LET token_b_amount ==
              PartialTokenB(c.ix.token_a_amount, escrow.token_a_amount, escrow.token_b_amount)
          updated == [escrows EXCEPT
                         ![c.escrow_account] =
                             PartialRecordAfter(escrow, c.ix.token_a_amount, token_b_amount)]
      IN  IF token_b_amount > balance[c.taker_token_b_ata] THEN Fail(InsufficientFunds)
          ELSE SettleTransfers(updated, c, c.ix.token_a_amount, token_b_amount)

\* C29 mutant: the request is compared with the vault's balance
take_dutch_AgainstVault(escrow, c, wraps) ==
    IF ~c.ix.wellformed THEN Fail(InvalidInstructionData)
    ELSE IF c.ix.token_a_amount > balance[c.escrow_token_a_ata] THEN Fail(InsufficientFunds)
    ELSE IF /\ ~PriceDropDefined(escrow)
            /\ escrow.start_time < clock
            /\ clock < escrow.end_time
         THEN (IF wraps THEN Fail(InsufficientFunds) ELSE Fail(ProgramAbort))
    ELSE
      LET required_token_b_amount == get_required_token_b_amount(escrow, clock)
      IN  IF DutchUnderpaid(c.ix, required_token_b_amount) THEN Fail(InsufficientFunds)
          ELSE SettleTransfers(escrows, c, c.ix.token_a_amount,
                               DutchPayment(c.ix, required_token_b_amount))

\* wraps: what the build does with the u64 subtraction start_price - end_price of a
\* reversed auction (end_price > start_price) read strictly inside the auction:
\* it wraps to a price above every offer of this model, or the instruction aborts
take_dutch(escrow, c, wraps) ==
    IF ~c.ix.wellformed THEN Fail(InvalidInstructionData)
    ELSE IF c.ix.token_a_amount > balance[c.taker_token_a_ata] THEN Fail(InsufficientFunds)
    ELSE IF /\ ~PriceDropDefined(escrow)
            /\ escrow.start_time < clock
            /\ clock < escrow.end_time
         THEN (IF wraps THEN Fail(InsufficientFunds) ELSE Fail(ProgramAbort))
    ELSE
      LET required_token_b_amount == get_required_token_b_amount(escrow, clock)
      IN  IF DutchUnderpaid(c.ix, required_token_b_amount) THEN Fail(InsufficientFunds)
          ELSE SettleTransfers(escrows, c, c.ix.token_a_amount,
                               DutchPayment(c.ix, required_token_b_amount))

\* C14 mutant: an Oracle record settles as a Simple one
take_oracle_AsSimple(escrow, c) == take_simple(escrow, c)

\* C32 mutant: an Oracle record settles as a Partial one
take_oracle_AsPartial(escrow, c) == take_partial(escrow, c, FALSE)

\* `_ => return Err(EscrowErrorCode::InvalidEscrowType.into())`
take_oracle(escrow, c) == Fail(InvalidEscrowType)

\* C28 mutant: the taker's signature is examined before the record's address
take_escrow_SignerBeforeAddress(c, wraps) ==
    IF try_from_account_info_mut(c.escrow_account) # Ok THEN Fail(InvalidAccountData)
    ELSE
      LET escrow == escrows[c.escrow_account]
      IN  IF ~c.taker_is_signer THEN Fail(InvalidMaker)
          ELSE IF validate_escrow_pda(c.escrow_account, c.maker_account,
                                      escrow.bump, escrow.seed) # Ok
          THEN Fail(validate_escrow_pda(c.escrow_account, c.maker_account,
                                        escrow.bump, escrow.seed))
          ELSE IF from_account_info_unchecked(c.taker_token_a_ata) # Ok
                  \/ from_account_info_unchecked(c.taker_token_b_ata) # Ok
               THEN Fail(InvalidAccountData)
          ELSE IF MintOf(c.taker_token_a_ata) # escrow.token_a_mint THEN Fail(InvalidTokenMint)
          ELSE IF MintOf(c.taker_token_b_ata) # escrow.token_b_mint THEN Fail(InvalidTokenMint)
          ELSE IF escrow.escrow_type = Simple THEN take_simple(escrow, c)
          ELSE IF escrow.escrow_type = Partial THEN take_partial(escrow, c, wraps)
          ELSE IF escrow.escrow_type = DutchAuction THEN take_dutch(escrow, c, wraps)
          ELSE take_oracle(escrow, c)

\* C38 mutant: the settlement path follows the variant byte of the payload
take_escrow_ByPayloadVariant(c, wraps) ==
    IF try_from_account_info_mut(c.escrow_account) # Ok THEN Fail(InvalidAccountData)
    ELSE
      LET escrow == escrows[c.escrow_account]
      IN  IF validate_escrow_pda(c.escrow_account, c.maker_account, escrow.bump, escrow.seed) # Ok
          THEN Fail(validate_escrow_pda(c.escrow_account, c.maker_account,
                                        escrow.bump, escrow.seed))
          ELSE IF ~c.taker_is_signer THEN Fail(InvalidMaker)
          ELSE IF from_account_info_unchecked(c.taker_token_a_ata) # Ok
                  \/ from_account_info_unchecked(c.taker_token_b_ata) # Ok
               THEN Fail(InvalidAccountData)
          ELSE IF MintOf(c.taker_token_a_ata) # escrow.token_a_mint THEN Fail(InvalidTokenMint)
          ELSE IF MintOf(c.taker_token_b_ata) # escrow.token_b_mint THEN Fail(InvalidTokenMint)
          ELSE IF c.ix.escrow_type = Simple THEN take_simple(escrow, c)
          ELSE IF c.ix.escrow_type = Partial THEN take_partial(escrow, c, wraps)
          ELSE IF c.ix.escrow_type = DutchAuction THEN take_dutch(escrow, c, wraps)
          ELSE take_oracle(escrow, c)

take_escrow(c, wraps) ==
    IF try_from_account_info_mut(c.escrow_account) # Ok THEN Fail(InvalidAccountData)
    ELSE
      LET escrow == escrows[c.escrow_account]
      IN  IF validate_escrow_pda(c.escrow_account, c.maker_account, escrow.bump, escrow.seed) # Ok
          THEN Fail(validate_escrow_pda(c.escrow_account, c.maker_account,
                                        escrow.bump, escrow.seed))
          ELSE IF ~c.taker_is_signer THEN Fail(InvalidMaker)
          ELSE IF from_account_info_unchecked(c.taker_token_a_ata) # Ok
                  \/ from_account_info_unchecked(c.taker_token_b_ata) # Ok
               THEN Fail(InvalidAccountData)
          ELSE IF MintOf(c.taker_token_a_ata) # escrow.token_a_mint THEN Fail(InvalidTokenMint)
          ELSE IF MintOf(c.taker_token_b_ata) # escrow.token_b_mint THEN Fail(InvalidTokenMint)
          ELSE IF escrow.escrow_type = Simple THEN take_simple(escrow, c)
          ELSE IF escrow.escrow_type = Partial THEN take_partial(escrow, c, wraps)
          ELSE IF escrow.escrow_type = DutchAuction THEN take_dutch(escrow, c, wraps)
          ELSE take_oracle(escrow, c)

----------------------------------------------------------------------------
\* Instruction payloads and account lists the model submits

MakeIx(type, a, b, seed, bump, end_price, duration) ==
    [wellformed |-> TRUE, aborts |-> FALSE, escrow_type |-> type, token_a_amount |-> a,
     token_b_amount |-> b, seed |-> seed, bump |-> bump,
     end_price |-> end_price, duration |-> duration]

TakeIx(type, a, b) ==
    [wellformed |-> TRUE, escrow_type |-> type, token_a_amount |-> a, token_b_amount |-> b]

\* Take with no payload after the tag byte, as the tests send it for Simple
NoTakeIx == [wellformed |-> FALSE, escrow_type |-> Simple, token_a_amount |-> 0,
             token_b_amount |-> 0]

\* A Make payload too short to decode: MakeEscrowIx::unpack slices the buffer
\* without a length check, and a slice out of range aborts the program
ShortMakeIx ==
    [MakeIx(Simple, 0, 0, 0, 0, 0, 0) EXCEPT !.wellformed = FALSE, !.aborts = TRUE]

\* A Make payload whose variant byte EscrowType::try_from rejects
BadTypeMakeIx == [MakeIx(Simple, 0, 0, 0, 0, 0, 0) EXCEPT !.wellformed = FALSE]

\* A Take payload TakeEscrowIx::unpack rejects (wrong length or variant byte)
BadTakeIx == NoTakeIx

----------------------------------------------------------------------------
\* The wire format of the two payloads (MakeEscrowIx, TakeEscrowIx): bytes are
\* 0..255, a buffer is a sequence of bytes, Rust's data[i..j] is SubSeq(data, i+1, j)

Bytes == 0 .. 255
MakeEscrowIx_LEN == 1 + 8 + 8 + 2 + 1 + 8 + 8 + 8
TakeEscrowIx_LEN == 1 + 8 + 8

\* u64::to_le_bytes / u16 seed bytes: the low `n` bytes of v, least significant first
RECURSIVE to_le_bytes(_, _)
to_le_bytes(v, n) ==
    IF n = 0 THEN <<>> ELSE <<v % 256>> \o to_le_bytes(v \div 256, n - 1)

\* u64::from_le_bytes
RECURSIVE from_le_bytes(_)
from_le_bytes(bytes) ==
    IF bytes = <<>> THEN 0 ELSE Head(bytes) + 256 * from_le_bytes(Tail(bytes))

Zeros(n) == [i \in 1 .. n |-> 0]

\* EscrowType::try_from(u8)
EscrowType_try_from(value) == IF value \in EscrowTypes THEN Ok ELSE InvalidInstructionData

\* MakeEscrowIx::pack
MakeEscrowIx_pack(x) ==
    <<x.escrow_type>>
        \o to_le_bytes(x.token_a_amount, 8)
        \o to_le_bytes(x.token_b_amount, 8)
        \o to_le_bytes(x.seed, 2)
        \o <<x.bump>>
        \o to_le_bytes(x.end_price, 8)
        \o to_le_bytes(x.duration, 8)
        \o Zeros(MakeEscrowIx_LEN - 36)

\* C20 mutant: duration is read from the bytes of end_price
MakeEscrowIx_unpack_EndPriceTwice(data) ==
    IF Len(data) = 0 THEN ShortMakeIx
    ELSE IF EscrowType_try_from(data[1]) # Ok THEN BadTypeMakeIx
    ELSE IF Len(data) < 36 THEN ShortMakeIx
    ELSE MakeIx(data[1],
                from_le_bytes(SubSeq(data, 2, 9)),
                from_le_bytes(SubSeq(data, 10, 17)),
                from_le_bytes(SubSeq(data, 18, 19)),
                data[20],
                from_le_bytes(SubSeq(data, 21, 28)),
                from_le_bytes(SubSeq(data, 21, 28)))

\* MakeEscrowIx::unpack: no length check, so indexing an empty buffer or slicing
\* a short one aborts; the variant byte is decoded before the first slice
MakeEscrowIx_unpack(data) ==
    IF Len(data) = 0 THEN ShortMakeIx
    ELSE IF EscrowType_try_from(data[1]) # Ok THEN BadTypeMakeIx
    ELSE IF Len(data) < 36 THEN ShortMakeIx
    ELSE MakeIx(data[1],
                from_le_bytes(SubSeq(data, 2, 9)),
                from_le_bytes(SubSeq(data, 10, 17)),
                from_le_bytes(SubSeq(data, 18, 19)),
                data[20],
                from_le_bytes(SubSeq(data, 21, 28)),
                from_le_bytes(SubSeq(data, 29, 36)))

\* TakeEscrowIx::pack
TakeEscrowIx_pack(x) ==
    <<x.escrow_type>>
        \o to_le_bytes(x.token_a_amount, 8)
        \o to_le_bytes(x.token_b_amount, 8)

\* TakeEscrowIx::unpack
TakeEscrowIx_unpack(data) ==
    IF Len(data) # TakeEscrowIx_LEN THEN BadTakeIx
    ELSE IF EscrowType_try_from(data[1]) # Ok THEN BadTakeIx
    ELSE TakeIx(data[1],
                from_le_bytes(SubSeq(data, 2, 9)),
                from_le_bytes(SubSeq(data, 10, 17)))

\* No instruction data submitted yet
NoWire == [kind |-> "none", bytes |-> <<>>, sent_make |-> ShortMakeIx,
           sent_take |-> NoTakeIx, got_make |-> ShortMakeIx, got_take |-> NoTakeIx]

AmountsA == 0 .. MaxAmountA
AmountsB == 0 .. MaxAmountB
Prices == 0 .. MaxPrice
Durations == 0 .. MaxDuration

\* Payloads for the slot of `seed`, by variant
MakeIxs(seed) ==
    {MakeIx(Simple, a, b, seed, CanonicalBump, 0, 0) : a \in AmountsA, b \in AmountsB}
    \cup {MakeIx(Partial, a, b, seed, CanonicalBump, 0, 0) : a \in AmountsA, b \in AmountsB}
    \cup {MakeIx(Oracle, MaxAmountA, MaxAmountB, seed, CanonicalBump, 0, 0)}
    \cup {MakeIx(DutchAuction, 1, p, seed, CanonicalBump, q, d) :
              p \in Prices, q \in Prices, d \in Durations}
    \cup {MakeIx(Simple, 1, 1, seed, CanonicalBump, MaxPrice, MaxDuration)}
    \cup {MakeIx(DutchAuction, 1, MaxPrice, seed, CanonicalBump, 0, U64_MAX)}
    \cup {MakeIx(Partial, 1, U64_MAX \div BASIS_POINTS + 1, seed, CanonicalBump, 0, 0)}

\* Payloads whose seed or bump does not derive the slot's address
MismatchedMakeIxs(seed) ==
    {MakeIx(Simple, 1, 1, seed + 1, CanonicalBump, 0, 0),
     MakeIx(Simple, 1, 1, seed, CanonicalBump - 1, 0, 0),
     MakeIx(Simple, 1, 1, seed, InvalidBump, 0, 0),
     ShortMakeIx}

TakeIxs ==
    {NoTakeIx}
    \cup {TakeIx(DutchAuction, a, b) : a \in AmountsA, b \in Prices}
    \cup {TakeIx(Partial, a, 0) : a \in AmountsA}

\* The account list of create_escrow in the tests
DeclaredMake(slot, ix) ==
    [maker_account |-> MakerKey, maker_is_signer |-> TRUE,
     maker_token_a_ata |-> Ata(MakerKey, MintA),
     escrow_account |-> slot, escrow_token_a_ata |-> Ata(slot, MintA),
     token_a_mint |-> MintA, token_b_mint |-> MintB, ix |-> ix]

\* The account list of take_escrow_with_amounts / take_partial_escrow in the tests
DeclaredTake(slot, ix) ==
    [escrow_account |-> slot, escrow_token_a_ata |-> Ata(slot, MintA),
     maker_account |-> MakerKey, maker_token_b_ata |-> Ata(MakerKey, MintB),
     taker_account |-> TakerKey, taker_is_signer |-> TRUE,
     taker_token_a_ata |-> Ata(TakerKey, MintA),
     taker_token_b_ata |-> Ata(TakerKey, MintB), ix |-> ix]

SlotOfSeed(seed) == create_program_address(MakerKey, seed, CanonicalBump)

\* Make calls: the declared account list with every payload, and the declared
\* list with one account replaced
MakeCalls ==
    UNION {
        {DeclaredMake(SlotOfSeed(s), ix) : ix \in MakeIxs(s) \cup MismatchedMakeIxs(s)}
        \cup {[DeclaredMake(SlotOfSeed(s), MakeIx(Simple, 1, 1, s, CanonicalBump, 0, 0))
                  EXCEPT !.maker_is_signer = FALSE]}
        \cup {[DeclaredMake(SlotOfSeed(s), MakeIx(Simple, 1, 1, s, CanonicalBump, 0, 0))
                  EXCEPT !.maker_token_a_ata = acc] :
                 acc \in {MissingAccount, Ata(TakerKey, MintA), Ata(MakerKey, MintB)}}
        \cup {[DeclaredMake(SlotOfSeed(s), MakeIx(Simple, 1, 1, s, CanonicalBump, 0, 0))
                  EXCEPT !.escrow_token_a_ata = acc] :
                 acc \in {Ata(MakerKey, MintA), Ata(TakerKey, MintA), Ata(SlotOfSeed(s), MintB)}}
        \cup {[DeclaredMake(SlotOfSeed(s), MakeIx(Simple, 1, 1, s, CanonicalBump, 0, 0))
                  EXCEPT !.token_a_mint = m] : m \in {MintB, MakerKey}}
        \cup {[DeclaredMake(SlotOfSeed(s), MakeIx(Simple, 1, 1, s, CanonicalBump, 0, 0))
                  EXCEPT !.token_b_mint = m] : m \in {MintA, MakerKey}}
      : s \in Seeds }

\* The payload sent with a replaced account: every variant can settle under it
SubstitutedTakeIxs == {TakeIx(DutchAuction, 1, MaxPrice)}

\* Take calls: the declared account list with every payload, and the declared
\* list with one account, key or flag replaced
TakeCalls ==
    UNION {
        {DeclaredTake(slot, ix) : ix \in TakeIxs}
        \cup {[DeclaredTake(slot, ix) EXCEPT !.maker_token_b_ata = acc] :
                 ix \in SubstitutedTakeIxs, acc \in TokenAccounts \ {Ata(MakerKey, MintB)}}
        \cup {[DeclaredTake(slot, ix) EXCEPT !.escrow_token_a_ata = acc] :
                 ix \in SubstitutedTakeIxs, acc \in {Ata(MakerKey, MintA), Ata(TakerKey, MintA)}}
        \cup {[DeclaredTake(slot, ix) EXCEPT !.taker_token_a_ata = acc] :
                 ix \in SubstitutedTakeIxs,
                 acc \in {Ata(MakerKey, MintA), Ata(TakerKey, MintB), MissingAccount,
                          Ata(slot, MintA)}}
        \cup {[DeclaredTake(slot, ix) EXCEPT !.taker_token_b_ata = acc] :
                 ix \in SubstitutedTakeIxs,
                 acc \in {Ata(MakerKey, MintB), Ata(TakerKey, MintA)}}
        \cup {[DeclaredTake(slot, ix) EXCEPT !.maker_account = key] :
                 ix \in SubstitutedTakeIxs, key \in {TakerKey, StrangerKey}}
        \cup {[DeclaredTake(slot, ix) EXCEPT !.taker_is_signer = FALSE] :
                 ix \in SubstitutedTakeIxs}
        \cup {[DeclaredTake(slot, ix) EXCEPT
                   !.taker_account = MakerKey,
                   !.taker_token_a_ata = Ata(MakerKey, MintA),
                   !.taker_token_b_ata = Ata(MakerKey, MintB)] :
                 ix \in SubstitutedTakeIxs}
        \cup {[DeclaredTake(slot, ix) EXCEPT
                   !.escrow_account = create_program_address(TakerKey, 0, CanonicalBump)] :
                 ix \in SubstitutedTakeIxs}
      : slot \in EscrowSlots }

NoMakeCall == [DeclaredMake(SlotOfSeed(0), ShortMakeIx) EXCEPT !.maker_is_signer = FALSE]
NoTakeCall == [DeclaredTake(SlotOfSeed(0), NoTakeIx) EXCEPT !.taker_is_signer = FALSE]

----------------------------------------------------------------------------
\* Bookkeeping of a Partial escrow's fills, as test_partial_escrow_sequential_takes
\* keeps it: the totals it was made with, the balances at that moment, and the
\* cumulative amounts of its Takes

NoFills ==
    [made |-> FALSE, total_a |-> 0, total_b |-> 0, at_make |-> [acc \in TokenAccounts |-> 0],
     takes |-> 0, taken_a |-> 0, paid_b |-> 0, expected_b |-> 0]

FillsAfterMake(c, bal) ==
    [fills EXCEPT ![c.escrow_account] =
        [NoFills EXCEPT !.made = TRUE,
                        !.total_a = c.ix.token_a_amount,
                        !.total_b = c.ix.token_b_amount,
                        !.at_make = bal]]

\* expected_token_b = (total_token_b * take_amount) / total_token_a
ExpectedTokenB(total_a, total_b, take_amount) ==
    IF total_a = 0 THEN 0 ELSE (total_b * take_amount) \div total_a

FillsAfterTake(c, bal) ==
    LET f == fills[c.escrow_account]
        paid == balance[c.taker_token_b_ata] - bal[c.taker_token_b_ata]
    IN  [fills EXCEPT ![c.escrow_account] =
            [f EXCEPT !.takes = @ + 1,
                      !.taken_a = @ + c.ix.token_a_amount,
                      !.paid_b = @ + paid,
                      !.expected_b = @ + ExpectedTokenB(f.total_a, f.total_b,
                                                        c.ix.token_a_amount)]]

----------------------------------------------------------------------------
\* The call fills the account roles as the instruction declares them: the vault is
\* the escrow address's own token-A account, the maker's token-B account is the
\* maker's, the taker is another party than the maker using its own accounts

TakeAsDeclared(c) ==
    /\ c.taker_token_a_ata \in TokenAccounts
    /\ c.escrow_token_a_ata = Ata(c.escrow_account, MintOf(c.taker_token_a_ata))
    /\ OwnerOf(c.maker_token_b_ata) = c.maker_account
    /\ OwnerOf(c.taker_token_a_ata) = c.taker_account
    /\ OwnerOf(c.taker_token_b_ata) = c.taker_account
    /\ c.taker_account # c.maker_account

MakeAsDeclared(c) ==
    /\ c.escrow_token_a_ata = Ata(c.escrow_account, c.token_a_mint)
    /\ c.maker_token_a_ata = Ata(c.maker_account, c.token_a_mint)

----------------------------------------------------------------------------
\* The machine

\* What the build does with the u64 subtraction of a reversed auction and with
\* a u64 product of a Partial share that leaves the word
WrapChoices(c) ==
    IF \/ /\ escrows[c.escrow_account].initialized
          /\ escrows[c.escrow_account].escrow_type = DutchAuction
          /\ ~PriceDropDefined(escrows[c.escrow_account])
       \/ /\ escrows[c.escrow_account].initialized
          /\ escrows[c.escrow_account].escrow_type = Partial
          /\ escrows[c.escrow_account].token_a_amount > 0
          /\ ~PartialOverRequest(c.ix, escrows[c.escrow_account])
          /\ PartialOverflows(c.ix.token_a_amount, escrows[c.escrow_account].token_a_amount,
                              escrows[c.escrow_account].token_b_amount)
    THEN BOOLEAN ELSE {FALSE}

\* What the build does with the u64 addition of an end time out of range
MakeWrapChoices(c) ==
    IF c.ix.escrow_type = DutchAuction /\ EndTimeOverflows(clock, c.ix.duration)
    THEN BOOLEAN ELSE {FALSE}

NoInstruction == [op |-> "none", res |-> Ok, make |-> NoMakeCall, take |-> NoTakeCall]

\* Balances the test setup mints (tests/common/mod.rs, EscrowTestSetup::new)
InitialBalance(maker_a, maker_b, taker_a, taker_b) ==
    [acc \in TokenAccounts |->
        IF acc = Ata(MakerKey, MintA) THEN maker_a
        ELSE IF acc = Ata(MakerKey, MintB) THEN maker_b
        ELSE IF acc = Ata(TakerKey, MintA) THEN taker_a
        ELSE IF acc = Ata(TakerKey, MintB) THEN taker_b
        ELSE 0]

Init ==
    /\ escrows = [e \in EscrowAddresses |-> EmptyEscrow]
    /\ balance = InitialBalance(MaxAmountA, 0, MaxAmountA - 1, MaxAmountB)
    /\ clock = 0
    /\ last = NoInstruction
    /\ fills = [e \in EscrowSlots |-> NoFills]
    /\ quote = 0
    /\ wire = NoWire

\* process_instruction, tag 0x01: make_escrow run atomically. `last` keeps the
\* accounts and payload of an instruction that took effect.
MakeStep(c, wraps) ==
    LET out == Atomic(make_escrow(c, wraps))
    IN  /\ UNCHANGED <<clock, quote, wire>>
        /\ escrows' = out.escrows
        /\ balance' = out.balance
        /\ last' = IF out.res = Ok
                   THEN [op |-> "make", res |-> Ok, make |-> c, take |-> NoTakeCall]
                   ELSE [NoInstruction EXCEPT !.op = "make", !.res = out.res]

\* process_instruction, tag 0x02: take_escrow run atomically
TakeStep(c, wraps) ==
    LET out == Atomic(take_escrow(c, wraps))
    IN  /\ UNCHANGED <<clock, quote, wire>>
        /\ escrows' = out.escrows
        /\ balance' = out.balance
        /\ last' = IF out.res = Ok
                   THEN [op |-> "take", res |-> Ok, make |-> NoMakeCall, take |-> c]
                   ELSE [NoInstruction EXCEPT !.op = "take", !.res = out.res]

Make(c, wraps) == MakeStep(c, wraps) /\ UNCHANGED fills

Take(c, wraps) == TakeStep(c, wraps) /\ UNCHANGED fills

\* The host's clock advances between instructions
Tick ==
    /\ clock < MaxTime
    /\ clock' = clock + 1
    /\ last' = [NoInstruction EXCEPT !.op = "tick"]
    /\ UNCHANGED <<escrows, balance, fills, quote, wire>>

Next ==
    \/ \E c \in MakeCalls : \E wraps \in MakeWrapChoices(c) : Make(c, wraps)
    \/ \E c \in TakeCalls : \E wraps \in WrapChoices(c) : Take(c, wraps)
    \/ Tick

Spec == Init /\ [][Next]_vars

----------------------------------------------------------------------------
\* The same handlers driven as the integration tests drive them: one Simple,
\* Partial or DutchAuction escrow, declared accounts, a taker that can pay every fill, and the
\* balances at Make and the fills since kept in `fills`

FillTotalsB == AmountsB \cup {LargeAmountB - 1, LargeAmountB}

FillMakeCalls ==
    {DeclaredMake(SlotOfSeed(0), MakeIx(Partial, a, b, 0, CanonicalBump, 0, 0)) :
        a \in 1 .. MaxAmountA, b \in FillTotalsB}
    \cup {DeclaredMake(SlotOfSeed(0), MakeIx(Simple, a, b, 0, CanonicalBump, 0, 0)) :
              a \in AmountsA, b \in AmountsB}
    \cup {DeclaredMake(SlotOfSeed(0),
                       MakeIx(DutchAuction, a, MaxPrice, 0, CanonicalBump, 0, MaxDuration)) :
              a \in 1 .. MaxAmountA}

FillTakeCalls ==
    {DeclaredTake(SlotOfSeed(0), TakeIx(Partial, a, 0)) : a \in AmountsA}
    \cup {DeclaredTake(SlotOfSeed(0), TakeIx(DutchAuction, a, MaxPrice)) : a \in AmountsA}
    \cup {DeclaredTake(SlotOfSeed(0), NoTakeIx)}

InitFills ==
    /\ escrows = [e \in EscrowAddresses |-> EmptyEscrow]
    /\ \E taker_a \in {0, MaxAmountA - 1, MaxAmountA} :
          balance = InitialBalance(MaxAmountA, 0, taker_a, LargeAmountB)
    /\ clock = 0
    /\ last = NoInstruction
    /\ fills = [e \in EscrowSlots |-> NoFills]
    /\ quote = 0
    /\ wire = NoWire

MakeCounted(c) ==
    /\ MakeStep(c, FALSE)
    /\ fills' = IF last'.res = Ok THEN FillsAfterMake(c, balance) ELSE fills

TakeCounted(c) ==
    /\ fills[c.escrow_account].takes < MaxTakes
    /\ TakeStep(c, FALSE)
    /\ fills' = IF last'.res = Ok THEN FillsAfterTake(c, balance') ELSE fills

NextFills ==
    \/ \E c \in FillMakeCalls : MakeCounted(c)
    \/ \E c \in FillTakeCalls : TakeCounted(c)

SpecFills == InitFills /\ [][NextFills]_vars

----------------------------------------------------------------------------
\* The price function on its own: an auction record as Make writes it, read at
\* chosen times

MaxQuoteTime == 5       \* small read times 0..MaxQuoteTime

\* test_dutch_auction_price_calculation: start_price, end_price, duration
TestStartPrice == 10000
TestEndPrice == 5000
TestDuration == 3600

QuoteTimes == (0 .. MaxQuoteTime) \cup {900, 1800, TestDuration, TestDuration + 1}

AuctionIxs ==
    {MakeIx(DutchAuction, 1, p, 0, CanonicalBump, q, d) :
        p \in AmountsB, q \in AmountsB, d \in 0 .. (MaxDuration + 1)}
    \cup {MakeIx(DutchAuction, 1, TestStartPrice, 0, CanonicalBump, TestEndPrice, TestDuration)}
    \cup {MakeIx(DutchAuction, 1, U64_MAX \div 2 + 1, 0, CanonicalBump, q, d) :
              q \in {0, 1}, d \in 0 .. (MaxDuration + 1)}

AuctionRecord(ix, start_time) ==
    initialize(ix, ix.seed, MintA, MintB, MakerKey, start_time, start_time + ix.duration)

InitPrice ==
    /\ \E ix \in {i \in AuctionIxs : i.token_b_amount >= i.end_price} :
       \E t \in (IF ix.token_b_amount > U64_MAX \div 2 THEN {0} ELSE 0 .. MaxTime) :
          escrows = [e \in EscrowAddresses |->
                        IF e = SlotOfSeed(0) THEN AuctionRecord(ix, t) ELSE EmptyEscrow]
    /\ balance = InitialBalance(0, 0, 0, 0)
    /\ clock = 0
    /\ last = NoInstruction
    /\ fills = [e \in EscrowSlots |-> NoFills]
    /\ quote = get_required_token_b_amount(escrows[SlotOfSeed(0)], 0)
    /\ wire = NoWire

\* The record's price read at a later time
Quote(t) ==
    /\ t > clock
    /\ clock' = t
    /\ quote' = get_required_token_b_amount(escrows[SlotOfSeed(0)], t)
    /\ last' = [NoInstruction EXCEPT !.op = "quote"]
    /\ UNCHANGED <<escrows, balance, fills, wire>>

NextPrice == \E t \in QuoteTimes : Quote(t)

SpecPrice == InitPrice /\ [][NextPrice]_vars

----------------------------------------------------------------------------
\* Account roles of the settled escrow, read off the last instruction

MakerOfRecord(c) == escrows[c.escrow_account].maker_pubkey
Vault(c) == Ata(c.escrow_account, MintA)
VaultB(c) == Ata(c.escrow_account, MintB)

\* Every balance but those of `accounts` is as it was
OthersUnchanged(accounts) ==
    \A acc \in TokenAccounts \ accounts : balance'[acc] = balance[acc]

----------------------------------------------------------------------------
\* C1: in every successful Take the token-B payment of the taker is credited to a
\* holding account owned by the maker stored in the escrow record, whatever
\* accounts the Take was given.
C1_PaymentCreditedToRecordedMaker ==
    [][(last'.op = "take" /\ last'.res = Ok) =>
        LET c == last'.take
            paid == balance[c.taker_token_b_ata] - balance'[c.taker_token_b_ata]
        IN  paid > 0 =>
                \E acc \in TokenAccounts :
                    /\ OwnerOf(acc) = MakerOfRecord(c)
                    /\ MintOf(acc) = escrows[c.escrow_account].token_b_mint
                    /\ balance'[acc] = balance[acc] + paid]_vars

TakeCommonPreconditions(c) ==
    /\ escrows[c.escrow_account].initialized
    /\ validate_escrow_pda(c.escrow_account, c.maker_account,
                           escrows[c.escrow_account].bump,
                           escrows[c.escrow_account].seed) = Ok
    /\ c.taker_is_signer
    /\ c.taker_token_a_ata \in TokenAccounts
    /\ c.taker_token_b_ata \in TokenAccounts
    /\ MintOf(c.taker_token_a_ata) = escrows[c.escrow_account].token_a_mint
    /\ MintOf(c.taker_token_b_ata) = escrows[c.escrow_account].token_b_mint

\* The Takes of one escrow since its Make, in the declared roles
FirstTakeDone(slot, type) ==
    /\ fills[slot].made
    /\ fills[slot].takes = 1
    /\ escrows[slot].escrow_type = type

C4_SimpleRejectedIffVaultOrTakerShort ==
    \A c \in TakeCalls :
        (/\ TakeCommonPreconditions(c)
         /\ TakeAsDeclared(c)
         /\ escrows[c.escrow_account].escrow_type = Simple)
        => LET escrow == escrows[c.escrow_account]
           IN  (take_escrow(c, FALSE).res = InsufficientFunds)
                  <=> \/ escrow.token_a_amount > balance[c.escrow_token_a_ata]
                      \/ escrow.token_b_amount > balance[c.taker_token_b_ata]

C4_Witness ==
    /\ last.op = "take" /\ last.res = InsufficientFunds
    /\ escrows[SlotOfSeed(0)].initialized
    /\ escrows[SlotOfSeed(0)].escrow_type = Simple
    /\ escrows[SlotOfSeed(0)].token_a_amount <= balance[Ata(SlotOfSeed(0), MintA)]
    /\ escrows[SlotOfSeed(0)].token_b_amount <= balance[Ata(TakerKey, MintB)]

\* C5: a successful Partial Take in the declared roles, requesting x of the
\* remaining ra, moves exactly x token A from the vault to the taker and exactly
\* owed = floor(rb * floor(x * 10000 / ra) / 10000) token B from the taker to the
\* maker, and leaves the record at ra - x and rb - owed.
C5_PartialMovesShare ==
    [][(/\ last'.op = "take" /\ last'.res = Ok
        /\ TakeAsDeclared(last'.take)
        /\ escrows[last'.take.escrow_account].escrow_type = Partial) =>
        LET c == last'.take
            x == c.ix.token_a_amount
            ra == escrows[c.escrow_account].token_a_amount
            rb == escrows[c.escrow_account].token_b_amount
            owed == (rb * ((x * 10000) \div ra)) \div 10000
            moved == {Vault(c), c.taker_token_a_ata, c.taker_token_b_ata,
                      c.maker_token_b_ata}
        IN  /\ x <= ra
            /\ balance'[Vault(c)] = balance[Vault(c)] - x
            /\ balance'[c.taker_token_a_ata] = balance[c.taker_token_a_ata] + x
            /\ balance'[c.taker_token_b_ata] = balance[c.taker_token_b_ata] - owed
            /\ balance'[c.maker_token_b_ata] = balance[c.maker_token_b_ata] + owed
            /\ OthersUnchanged(moved)
            /\ escrows'[c.escrow_account].token_a_amount = ra - x
            /\ escrows'[c.escrow_account].token_b_amount = rb - owed]_vars

C5_Witness ==
    /\ last.op = "take" /\ last.res = Ok /\ TakeAsDeclared(last.take)
    /\ escrows[last.take.escrow_account].escrow_type = Partial
    /\ last.take.ix.token_a_amount > 0
    /\ escrows[last.take.escrow_account].token_a_amount > 0
    /\ balance[last.take.maker_token_b_ata] > 0

\* A Partial escrow made in the declared roles, with at least one Take since
PartialFilled(slot) ==
    /\ fills[slot].made
    /\ escrows[slot].escrow_type = Partial
    /\ fills[slot].takes >= 1

\* floor(total_b * cumulative_a / total_a)
ExactProportion(f) == (f.total_b * f.taken_a) \div f.total_a

\* C6: for a Partial escrow made with totals (A, B), after every successful take
\* of a sequence x_1..x_k the token B moved from taker to maker is the sum of
\* floor(B * x_i / A), the taker's token-A gain is the sum of the x_i, and the
\* vault holds A minus that sum.
C6_CumulativeFromOriginalTotals ==
    \A slot \in EscrowSlots :
        PartialFilled(slot) =>
            LET f == fills[slot]
            IN  /\ f.paid_b = f.expected_b
                /\ balance[Ata(MakerKey, MintB)] - f.at_make[Ata(MakerKey, MintB)]
                      = f.expected_b
                /\ balance[Ata(TakerKey, MintA)] - f.at_make[Ata(TakerKey, MintA)]
                      = f.taken_a
                /\ balance[Ata(slot, MintA)] = f.total_a - f.taken_a

PriceDefinedAt(escrow, now) ==
    \/ escrow.start_price >= escrow.end_price
    \/ now <= escrow.start_time
    \/ now >= escrow.end_time

PartialOverRequested(c) ==
    /\ TakeCommonPreconditions(c) /\ c.ix.wellformed
    /\ escrows[c.escrow_account].escrow_type = Partial
    /\ c.ix.token_a_amount > escrows[c.escrow_account].token_a_amount

DutchOfferedBelowPrice(c) ==
    /\ TakeCommonPreconditions(c) /\ c.ix.wellformed
    /\ escrows[c.escrow_account].escrow_type = DutchAuction
    /\ PriceDefinedAt(escrows[c.escrow_account], clock)
    /\ c.ix.token_b_amount < get_required_token_b_amount(escrows[c.escrow_account], clock)

C10_DutchPriceFormula ==
    LET r == escrows[SlotOfSeed(0)]
    IN  r.start_price >= r.end_price =>
          /\ quote =
                IF clock <= r.start_time THEN r.start_price
                ELSE IF clock >= r.end_time THEN r.end_price
                ELSE r.start_price
                        - ((r.start_price - r.end_price) * (clock - r.start_time))
                              \div (r.end_time - r.start_time)
          /\ (/\ r.start_price = 10000 /\ r.end_price = 5000
              /\ r.start_time = 0 /\ r.duration = 3600) =>
                /\ clock = 0 => quote = 10000
                /\ clock = 900 => quote = 8750
                /\ clock = 1800 => quote = 7500
                /\ clock = 3600 => quote = 5000

C10_Witness ==
    /\ escrows[SlotOfSeed(0)].start_price = TestStartPrice
    /\ escrows[SlotOfSeed(0)].end_price = TestEndPrice
    /\ escrows[SlotOfSeed(0)].start_time = 0
    /\ clock = 900
    /\ quote = 8750
    /\ last.op = "quote"

\* Offers a DutchAuction Take can carry in the price specification
QuoteOffers == AmountsB \cup {TestEndPrice, TestStartPrice}

\* C11: for an auction record with start_price >= end_price the price never rises
\* from one time to a later one and always lies in [end_price, start_price]; so
\* an offer that passes the price check at one time passes it at every later time.
C11_DutchPriceNonIncreasing ==
    [][LET r == escrows[SlotOfSeed(0)]
       IN  r.start_price >= r.end_price =>
             /\ clock' > clock
             /\ quote' <= quote
             /\ r.end_price <= quote /\ quote <= r.start_price
             /\ r.end_price <= quote' /\ quote' <= r.start_price
             /\ \A offer \in QuoteOffers :
                   offer >= quote => offer >= quote']_vars

C11_Witness ==
    /\ escrows[SlotOfSeed(0)].start_price = MaxAmountB
    /\ escrows[SlotOfSeed(0)].end_price = 1
    /\ escrows[SlotOfSeed(0)].start_time > 0
    /\ clock > escrows[SlotOfSeed(0)].start_time
    /\ clock < escrows[SlotOfSeed(0)].end_time
    /\ quote < MaxAmountB /\ quote > 1
    /\ last.op = "quote"

C13_SimpleAndDutchSingleShot ==
    \A e \in EscrowSlots :
        (/\ escrows[e].initialized
         /\ escrows[e].escrow_type \in {Simple, DutchAuction}
         /\ escrows[e].token_a_amount > 0) =>
            fills[e].takes <= 1

C15_SlotMadeAtMostOnce ==
    /\ [](\A c \in MakeCalls :
             escrows[c.escrow_account].initialized =>
                 \A wraps \in MakeWrapChoices(c) :
                     LET out == Atomic(make_escrow(c, wraps))
                     IN  /\ out.res # Ok
                         /\ c.maker_is_signer => out.res = EscrowAlreadyExists
                         /\ out.escrows = escrows
                         /\ out.balance = balance)
    /\ [][/\ (last'.op = "make" /\ last'.res = Ok) =>
                /\ ~escrows[last'.make.escrow_account].initialized
                /\ escrows'[last'.make.escrow_account].initialized
          /\ \A e \in EscrowAddresses :
                escrows[e].initialized =>
                    /\ escrows'[e].initialized
                    /\ last'.op = "make" => escrows'[e] = escrows[e]]_vars

\* a Make rejected at a Simple record whose vault a Take has emptied
C15_Witness ==
    /\ escrows[SlotOfSeed(0)].initialized
    /\ escrows[SlotOfSeed(0)].escrow_type = Simple
    /\ escrows[SlotOfSeed(0)].token_a_amount = MaxAmountA - 1
    /\ balance[Ata(SlotOfSeed(0), MintA)] = 0
    /\ balance[Ata(TakerKey, MintA)] = 2 * (MaxAmountA - 1)
    /\ last.op = "make" /\ last.res = EscrowAlreadyExists

\* The Takes since Make have moved all of the deposited token A out of the vault
FullySettled(slot) ==
    /\ fills[slot].made
    /\ fills[slot].total_a > 0
    /\ fills[slot].takes >= 1
    /\ balance[Ata(slot, MintA)] = 0

\* C16: in every reachable state a record exists at a derived address if and only
\* if the escrow there is open: it has been created by Make and has not yet been
\* fully settled by Take.
C16_RecordExistsIffOpen ==
    \A slot \in EscrowSlots :
        escrows[slot].initialized <=> (fills[slot].made /\ ~FullySettled(slot))

\* C17: there is no withdrawal path for the maker: token A deposited into an
\* escrow's vault never returns to a token account owned by that escrow's maker,
\* so no Make or Take increases the maker's token-A balance. Stated for the
\* operations the maker signs itself.
C17_NoMakerWithdrawal ==
    [][\A acc \in TokenAccounts :
          (/\ last'.res = Ok
           /\ \/ last'.op = "make"
              \/ /\ last'.op = "take"
                 /\ last'.take.taker_account = MakerOfRecord(last'.take)
           /\ MintOf(acc) = MintA
           /\ OwnerOf(acc) = MakerKey) =>
              balance'[acc] <= balance[acc]]_vars

\* C18 as stated: on an existing record of any variant, Take fails with PdaMismatch when
\* the supplied record address is not the one derived from the maker account
\* passed and the record's seed and bump, which with records at the address
\* derived from their stored maker is the case exactly when the maker account
\* passed differs from the stored one; when the address check passes, with
\* InvalidMaker when the taker is not a signer; when both pass and the taker's
\* token accounts exist, with InvalidTokenMint when the mint of the taker's
\* token-A or token-B account differs from the record's. In each case the record
\* and every balance are unchanged.
C18_TakeCommonChecksReject ==
    \A c \in TakeCalls : \A wraps \in BOOLEAN :
        LET r == escrows[c.escrow_account]
            out == Atomic(take_escrow(c, wraps))
            unchanged == out.escrows = escrows /\ out.balance = balance
            address_ok == c.maker_account = r.maker_pubkey
            mints_differ == \/ MintOf(c.taker_token_a_ata) # r.token_a_mint
                            \/ MintOf(c.taker_token_b_ata) # r.token_b_mint
        IN  r.initialized =>
              /\ c.escrow_account = <<PREFIX, r.maker_pubkey, r.seed, r.bump>>
              /\ ~address_ok => (out.res = PdaMismatch /\ unchanged)
              /\ (address_ok /\ ~c.taker_is_signer) => (out.res = InvalidMaker /\ unchanged)
              /\ (/\ address_ok /\ c.taker_is_signer
                  /\ c.taker_token_a_ata \in TokenAccounts
                  /\ c.taker_token_b_ata \in TokenAccounts
                  /\ mints_differ) => (out.res = InvalidTokenMint /\ unchanged)

\* C18: on an existing record of any variant, Take fails when the maker account
\* passed differs from the record's stored maker: with PdaMismatch when the
\* account passed derives, with the record's seed and bump, an address (which is
\* then another one than the record's), and with the derivation's error
\* InvalidSeeds when it derives none; when the address check passes, with
\* InvalidMaker when the taker is not a signer; when both pass and the taker's
\* token accounts exist, with InvalidTokenMint when the mint of the taker's
\* token-A or token-B account differs from the record's. In each case the record
\* and every balance are unchanged.
C18_TakeRejectsWrongMakerSignerMint ==
    \A c \in TakeCalls : \A wraps \in BOOLEAN :
        LET r == escrows[c.escrow_account]
            out == Atomic(take_escrow(c, wraps))
            unchanged == out.escrows = escrows /\ out.balance = balance
            address_ok == c.maker_account = r.maker_pubkey
            mints_differ == \/ MintOf(c.taker_token_a_ata) # r.token_a_mint
                            \/ MintOf(c.taker_token_b_ata) # r.token_b_mint
        IN  r.initialized =>
              /\ c.escrow_account = <<PREFIX, r.maker_pubkey, r.seed, r.bump>>
              /\ OffCurve(r.maker_pubkey, r.seed, r.bump)
              /\ (~address_ok /\ OffCurve(c.maker_account, r.seed, r.bump)) =>
                    (out.res = PdaMismatch /\ unchanged)
              /\ (~address_ok /\ ~OffCurve(c.maker_account, r.seed, r.bump)) =>
                    (out.res = InvalidSeeds /\ unchanged)
              /\ (address_ok /\ ~c.taker_is_signer) => (out.res = InvalidMaker /\ unchanged)
              /\ (/\ address_ok /\ c.taker_is_signer
                  /\ c.taker_token_a_ata \in TokenAccounts
                  /\ c.taker_token_b_ata \in TokenAccounts
                  /\ mints_differ) => (out.res = InvalidTokenMint /\ unchanged)

\* a funded record on which a Take naming a maker that derives no address has
\* just been rejected
C18_Witness ==
    /\ escrows[SlotOfSeed(0)].initialized
    /\ balance[Ata(SlotOfSeed(0), MintA)] > 0
    /\ last.op = "take" /\ last.res = InvalidSeeds

----------------------------------------------------------------------------
\* The entrypoint (lib.rs): instruction data arrives as bytes, the leading byte
\* selects the handler and the rest is its payload

DispatchMakeIxs ==
    {MakeIx(Simple, 1, 1, 0, CanonicalBump, 0, 0),
     MakeIx(Partial, MaxAmountA - 1, MaxAmountB - 1, 0, CanonicalBump, 0, 0),
     MakeIx(DutchAuction, 1, MaxPrice, 0, CanonicalBump, 0, MaxDuration),
     MakeIx(Oracle, 1, 1, 0, CanonicalBump, 0, 0)}

DispatchTakeIxs ==
    {TakeIx(Simple, 0, 0), TakeIx(Partial, 1, 0), TakeIx(DutchAuction, 1, MaxPrice)}

\* Payloads: none, the packed payloads of both handlers, a lone unknown variant
\* byte, and a Make payload cut short
DispatchPayloads ==
    {<<>>, <<7>>}
    \cup {MakeEscrowIx_pack(x) : x \in DispatchMakeIxs}
    \cup {TakeEscrowIx_pack(x) : x \in DispatchTakeIxs}
    \cup {SubSeq(MakeEscrowIx_pack(x), 1, 20) : x \in DispatchMakeIxs}

DispatchTags == {0, 1, 2, 3, 255}

DispatchData == {<<>>} \cup {<<tag>> \o payload : tag \in DispatchTags, payload \in DispatchPayloads}

\* C19 mutant: the two tags select each other's handler
process_instruction_TagsSwapped(mc, tc, instruction_data, wraps) ==
    IF instruction_data = <<>>
    THEN [handler |-> "none", out |-> Fail(InvalidInstructionData)]
    ELSE LET descriminator == Head(instruction_data)
             data == Tail(instruction_data)
         IN  IF descriminator = 2
             THEN [handler |-> "make",
                   out |-> make_escrow([mc EXCEPT !.ix = MakeEscrowIx_unpack(data)], wraps)]
             ELSE IF descriminator = 1
             THEN [handler |-> "take",
                   out |-> take_escrow([tc EXCEPT !.ix = TakeEscrowIx_unpack(data)], wraps)]
             ELSE [handler |-> "none", out |-> Fail(InvalidInstructionData)]

\* process_instruction: mc and tc are the account list read in the roles of
\* make_escrow and of take_escrow
process_instruction(mc, tc, instruction_data, wraps) ==
    IF instruction_data = <<>>
    THEN [handler |-> "none", out |-> Fail(InvalidInstructionData)]
    ELSE LET descriminator == Head(instruction_data)
             data == Tail(instruction_data)
         IN  IF descriminator = 1
             THEN [handler |-> "make",
                   out |-> make_escrow([mc EXCEPT !.ix = MakeEscrowIx_unpack(data)], wraps)]
             ELSE IF descriminator = 2
             THEN [handler |-> "take",
                   out |-> take_escrow([tc EXCEPT !.ix = TakeEscrowIx_unpack(data)], wraps)]
             ELSE [handler |-> "none", out |-> Fail(InvalidInstructionData)]

\* One instruction submitted with the declared accounts, run atomically
Dispatch(instruction_data, wraps) ==
    LET run == process_instruction(DeclaredMake(SlotOfSeed(0), ShortMakeIx),
                                   DeclaredTake(SlotOfSeed(0), NoTakeIx),
                                   instruction_data, wraps)
        out == Atomic(run.out)
    IN  /\ escrows' = out.escrows
        /\ balance' = out.balance
        /\ last' = [NoInstruction EXCEPT !.op = run.handler, !.res = out.res]
        /\ wire' = [NoWire EXCEPT !.kind = run.handler, !.bytes = instruction_data]
        /\ UNCHANGED <<clock, fills, quote>>

NextDispatch ==
    \E instruction_data \in DispatchData :
        \E wraps \in WrapChoices(DeclaredTake(SlotOfSeed(0), NoTakeIx)) :
            Dispatch(instruction_data, wraps)

SpecDispatch == Init /\ [][NextDispatch]_vars

\* C19: instruction data whose first byte is 0x01 runs Make, and data whose first
\* byte is 0x02 runs Take, on the bytes after the first as payload; empty data
\* and every other first byte are rejected as invalid instruction data with no
\* handler run and no record or balance changed.
C19_TagSelectsHandler ==
    [][LET d == wire'.bytes
           payload == SubSeq(d, 2, Len(d))
           made == Atomic(make_escrow(DeclaredMake(SlotOfSeed(0), MakeEscrowIx_unpack(payload)), FALSE))
           taken == Atomic(take_escrow(DeclaredTake(SlotOfSeed(0), TakeEscrowIx_unpack(payload)),
                                       FALSE))
       IN  /\ (d # <<>> /\ d[1] = 1) =>
                 /\ wire'.kind = "make"
                 /\ last'.res = made.res
                 /\ escrows' = made.escrows /\ balance' = made.balance
           /\ (d # <<>> /\ d[1] = 2) =>
                 /\ wire'.kind = "take"
                 /\ last'.res = taken.res
                 /\ escrows' = taken.escrows /\ balance' = taken.balance
           /\ (d = <<>> \/ (d # <<>> /\ d[1] \notin {1, 2})) =>
                 /\ wire'.kind = "none"
                 /\ last'.res = InvalidInstructionData
                 /\ escrows' = escrows /\ balance' = balance]_vars

\* a Take routed by tag 0x02 has settled part of a record created through tag 0x01
C19_Witness ==
    /\ wire.kind = "take" /\ wire.bytes[1] = 2 /\ Len(wire.bytes) = 1 + TakeEscrowIx_LEN
    /\ last.res = Ok
    /\ escrows[SlotOfSeed(0)].initialized
    /\ balance[Ata(TakerKey, MintA)] > MaxAmountA - 1

----------------------------------------------------------------------------
\* The two payload codecs on their own: a value is packed and the bytes unpacked

MaxCodecValue == 2130706432      \* largest field value packed (127 * 2^24)

\* Field values: around each byte boundary of the low four bytes
CodecValues == {0, 1, 255, 256, 65535, 65536, 16777216, MaxCodecValue}

CodecMakeIxs ==
    {MakeIx(type, a, b, seed, bump, end_price, duration) :
        type \in EscrowTypes, a \in CodecValues, b \in {0, 256, MaxCodecValue},
        seed \in {0, 1, 256, 65535}, bump \in {0, CanonicalBump - 1, CanonicalBump},
        end_price \in {0, 65536}, duration \in {0, 1, 16777216}}

CodecTakeIxs ==
    {TakeIx(type, a, b) : type \in EscrowTypes, a \in CodecValues, b \in CodecValues}

\* A value chosen, not yet packed
InitCodec ==
    /\ escrows = [e \in EscrowAddresses |-> EmptyEscrow]
    /\ balance = InitialBalance(0, 0, 0, 0)
    /\ clock = 0
    /\ last = NoInstruction
    /\ fills = [e \in EscrowSlots |-> NoFills]
    /\ quote = 0
    /\ \/ \E x \in CodecMakeIxs : wire = [NoWire EXCEPT !.kind = "make_value", !.sent_make = x]
       \/ \E x \in CodecTakeIxs : wire = [NoWire EXCEPT !.kind = "take_value", !.sent_take = x]

\* MakeEscrowIx::unpack(&x.pack())
RoundTripMake ==
    /\ wire.kind = "make_value"
    /\ wire' = [wire EXCEPT !.kind = "make_ix",
                            !.bytes = MakeEscrowIx_pack(wire.sent_make),
                            !.got_make = MakeEscrowIx_unpack(MakeEscrowIx_pack(wire.sent_make))]
    /\ UNCHANGED <<escrows, balance, clock, last, fills, quote>>

\* TakeEscrowIx::unpack(&x.pack())
RoundTripTake ==
    /\ wire.kind = "take_value"
    /\ wire' = [wire EXCEPT !.kind = "take_ix",
                            !.bytes = TakeEscrowIx_pack(wire.sent_take),
                            !.got_take = TakeEscrowIx_unpack(TakeEscrowIx_pack(wire.sent_take))]
    /\ UNCHANGED <<escrows, balance, clock, last, fills, quote>>

NextCodec == RoundTripMake \/ RoundTripTake

SpecCodec == InitCodec /\ [][NextCodec]_vars

\* C20: for every MakeEscrowIx value and every TakeEscrowIx value with a variant
\* in {Simple, Partial, DutchAuction, Oracle}, unpacking the packed bytes succeeds
\* and returns the value, field by field.
C20_PackUnpackRoundTrip ==
    /\ wire.kind = "make_ix" =>
          /\ Len(wire.bytes) = MakeEscrowIx_LEN
          /\ \A i \in 1 .. Len(wire.bytes) : wire.bytes[i] \in Bytes
          /\ wire.got_make.wellformed /\ ~wire.got_make.aborts
          /\ wire.got_make.escrow_type = wire.sent_make.escrow_type
          /\ wire.got_make.token_a_amount = wire.sent_make.token_a_amount
          /\ wire.got_make.token_b_amount = wire.sent_make.token_b_amount
          /\ wire.got_make.seed = wire.sent_make.seed
          /\ wire.got_make.bump = wire.sent_make.bump
          /\ wire.got_make.end_price = wire.sent_make.end_price
          /\ wire.got_make.duration = wire.sent_make.duration
    /\ wire.kind = "take_ix" =>
          /\ Len(wire.bytes) = TakeEscrowIx_LEN
          /\ \A i \in 1 .. Len(wire.bytes) : wire.bytes[i] \in Bytes
          /\ wire.got_take.wellformed
          /\ wire.got_take.escrow_type = wire.sent_take.escrow_type
          /\ wire.got_take.token_a_amount = wire.sent_take.token_a_amount
          /\ wire.got_take.token_b_amount = wire.sent_take.token_b_amount

\* an auction payload with every field set and no two fields equal
C20_Witness ==
    /\ wire.kind = "make_ix"
    /\ wire.sent_make.escrow_type = DutchAuction
    /\ wire.sent_make.token_a_amount = MaxCodecValue
    /\ wire.sent_make.token_b_amount = 256
    /\ wire.sent_make.seed = 65535
    /\ wire.sent_make.bump = CanonicalBump
    /\ wire.sent_make.end_price = 65536
    /\ wire.sent_make.duration = 16777216
    /\ wire.bytes[5] = 127 /\ wire.bytes[11] = 1 /\ wire.bytes[18] = 255
    /\ wire.got_make = wire.sent_make

\* C21: decoding a Make or a Take payload that is shorter than the payload's
\* width (36 and 17 bytes) or whose variant byte is outside {0,1,2,3} returns an
\* invalid-instruction-data error, neither aborting nor decoding, and the call
\* changes no record and no balance. Stated for the calls that reach the
\* decoding: a Make at an empty slot, a Take on a Partial or DutchAuction record,
\* both with the declared accounts.
C21_MalformedPayloadIsAnError ==
    [][LET d == wire'.bytes
           payload == SubSeq(d, 2, Len(d))
           bad_variant == payload # <<>> /\ payload[1] \notin {0, 1, 2, 3}
           r == escrows[SlotOfSeed(0)]
       IN  /\ (/\ wire'.kind = "make" /\ ~r.initialized
               /\ (Len(payload) < 36 \/ bad_variant)) =>
                  /\ last'.res = InvalidInstructionData
                  /\ escrows' = escrows /\ balance' = balance
           /\ (/\ wire'.kind = "take" /\ r.initialized
               /\ r.escrow_type \in {Partial, DutchAuction}
               /\ (Len(payload) < 17 \/ bad_variant)) =>
                  /\ last'.res = InvalidInstructionData
                  /\ escrows' = escrows /\ balance' = balance]_vars

\* C22: the packed MakeEscrowIx is exactly 36 bytes: the variant at offset 0,
\* token_a_amount at 1..9, token_b_amount (the start price) at 9..17, the seed at
\* 17..19, the bump at 19, end_price at 20..28 and duration at 28..36, integers
\* little-endian; the packed TakeEscrowIx is exactly 17 bytes: the variant,
\* token_a_amount at 1..9 and token_b_amount at 9..17.
C22_PayloadLayout ==
    /\ wire.kind = "make_ix" =>
          LET x == wire.sent_make
              data == wire.bytes
          IN  /\ Len(data) = 36
              /\ data[1] = x.escrow_type
              /\ SubSeq(data, 2, 9) = to_le_bytes(x.token_a_amount, 8)
              /\ SubSeq(data, 10, 17) = to_le_bytes(x.token_b_amount, 8)
              /\ SubSeq(data, 18, 19) = <<x.seed % 256, x.seed \div 256>>
              /\ data[20] = x.bump
              /\ SubSeq(data, 21, 28) = to_le_bytes(x.end_price, 8)
              /\ SubSeq(data, 29, 36) = to_le_bytes(x.duration, 8)
    /\ wire.kind = "take_ix" =>
          LET x == wire.sent_take
              data == wire.bytes
          IN  /\ Len(data) = 17
              /\ data[1] = x.escrow_type
              /\ SubSeq(data, 2, 9) = to_le_bytes(x.token_a_amount, 8)
              /\ SubSeq(data, 10, 17) = to_le_bytes(x.token_b_amount, 8)

----------------------------------------------------------------------------
\* Address verification on its own: an address derived from one seed list is
\* verified against a seed list supplied by the caller

PdaOwners == Users \cup {StrangerKey}
PdaBumps == Bumps \cup {InvalidBump}
PdaInputs == [owner : PdaOwners, seed : SeedValues, bump : PdaBumps]

InitPda ==
    /\ escrows = [e \in EscrowAddresses |-> EmptyEscrow]
    /\ balance = InitialBalance(0, 0, 0, 0)
    /\ clock = 0
    /\ last = NoInstruction
    /\ fills = [e \in EscrowSlots |-> NoFills]
    /\ quote = 0
    /\ \E derived_from \in {i \in PdaInputs : OffCurve(i.owner, i.seed, i.bump)},
          supplied \in PdaInputs :
          wire = [kind |-> "pda_inputs", bytes |-> <<>>,
                  derived_from |-> derived_from, supplied |-> supplied]

\* Escrow::validate_escrow_pda(derive(derived_from), supplied owner, bump, seed)
Verify ==
    /\ wire.kind = "pda_inputs"
    /\ wire' = [wire EXCEPT !.kind = "pda_verified"]
    /\ last' = [NoInstruction EXCEPT
                   !.op = "verify",
                   !.res = validate_escrow_pda(
                               create_program_address(wire.derived_from.owner,
                                                      wire.derived_from.seed,
                                                      wire.derived_from.bump),
                               wire.supplied.owner, wire.supplied.bump, wire.supplied.seed)]
    /\ UNCHANGED <<escrows, balance, clock, fills, quote>>

NextPda == Verify

SpecPda == InitPda /\ [][NextPda]_vars

\* C23 as stated: verification succeeds for every address derived from the
\* owner, seed and bump supplied, and fails with PdaMismatch when the address was
\* derived from an owner, seed or bump that differs from the supplied one.
C23_VerifyFailsWithPdaMismatch ==
    wire.kind = "pda_verified" =>
        /\ wire.derived_from = wire.supplied => last.res = Ok
        /\ wire.derived_from # wire.supplied => last.res = PdaMismatch

\* C23: verification succeeds for every address derived from the owner, seed and
\* bump supplied, and fails when the address was derived from an owner, seed or
\* bump that differs from the supplied one: with PdaMismatch when the supplied
\* ones derive an address themselves, and with the derivation's error
\* InvalidSeeds when they derive none.
C23_VerifyAcceptsOnlyTheDerivingInputs ==
    wire.kind = "pda_verified" =>
        LET s == wire.supplied
            derives == s.owner \in Users /\ s.bump \in {CanonicalBump - 1, CanonicalBump}
        IN  /\ wire.derived_from = s => last.res = Ok
            /\ wire.derived_from # s =>
                  /\ last.res # Ok
                  /\ derives => last.res = PdaMismatch
                  /\ ~derives => last.res = InvalidSeeds

\* the address of the maker's slot verified against the same owner and seed with
\* a bump that derives no address
C23_Witness ==
    /\ wire.kind = "pda_verified"
    /\ wire.derived_from = [owner |-> MakerKey, seed |-> 0, bump |-> CanonicalBump]
    /\ wire.supplied = [owner |-> MakerKey, seed |-> 0, bump |-> InvalidBump]
    /\ last.op = "verify" /\ last.res = InvalidSeeds

\* The units of `mint` held in the token accounts `accounts`
RECURSIVE TotalHeld(_, _, _)
TotalHeld(bal, mint, accounts) ==
    IF accounts = {} THEN 0
    ELSE LET acc == CHOOSE a \in accounts : TRUE
         IN  (IF MintOf(acc) = mint THEN bal[acc] ELSE 0)
                 + TotalHeld(bal, mint, accounts \ {acc})

C25_RecordFrame ==
    [][\A e \in EscrowAddresses :
          escrows[e].initialized =>
              LET r == escrows[e]
                  after == escrows'[e]
              IN  /\ r.escrow_type \in {Simple, DutchAuction, Oracle} => after = r
                  /\ last'.res # Ok => after = r
                  /\ last'.op # "take" => after = r
                  /\ after.initialized
                  /\ after.maker_pubkey = r.maker_pubkey
                  /\ after.seed = r.seed /\ after.bump = r.bump
                  /\ after.escrow_type = r.escrow_type
                  /\ after.token_a_mint = r.token_a_mint
                  /\ after.token_b_mint = r.token_b_mint
                  /\ after.start_price = r.start_price
                  /\ after.end_price = r.end_price
                  /\ after.start_time = r.start_time
                  /\ after.duration = r.duration
                  /\ after.end_time = r.end_time]_vars

\* a Partial record both of whose amounts a successful Take has lowered
C25_Witness ==
    /\ last.op = "take" /\ last.res = Ok
    /\ escrows[SlotOfSeed(0)].escrow_type = Partial
    /\ last.take.ix.token_a_amount = 1
    /\ escrows[SlotOfSeed(0)].token_a_amount = 1
    /\ escrows[SlotOfSeed(0)].token_b_amount > 0
    /\ balance[Ata(MakerKey, MintB)] > 0


----------------------------------------------------------------------------
\* C26: after a successful Make of a DutchAuction escrow the record has
\* start_time = the clock, end_time = start_time + duration as an exact sum with
\* end_time >= start_time, start_price = the payload's token_b_amount, and
\* end_price and duration as in the payload; and in every reachable state a
\* record of another variant has start_price, end_price, start_time, duration
\* and end_time all zero.
C26_AuctionFieldsAfterMake ==
    /\ [](\A e \in EscrowAddresses :
             (escrows[e].initialized /\ escrows[e].escrow_type # DutchAuction) =>
                 /\ escrows[e].start_price = 0
                 /\ escrows[e].end_price = 0
                 /\ escrows[e].start_time = 0
                 /\ escrows[e].duration = 0
                 /\ escrows[e].end_time = 0)
    /\ [][(/\ last'.op = "make"
           /\ last'.res = Ok
           /\ last'.make.ix.escrow_type = DutchAuction) =>
              LET ix == last'.make.ix
                  r == escrows'[last'.make.escrow_account]
              IN  /\ r.start_time = clock
                  /\ r.end_time = r.start_time + r.duration
                  /\ r.end_time >= r.start_time
                  /\ r.start_price = ix.token_b_amount
                  /\ r.end_price = ix.end_price
                  /\ r.duration = ix.duration]_vars

----------------------------------------------------------------------------
\* C27 as stated: a Make is rejected with the error of the first violated
\* condition in the order maker not signing (InvalidMaker), target slot occupied
\* (EscrowAlreadyExists), a mint not owned by the token program
\* (InvalidTokenOwner), maker token account absent (InvalidMakerTokenAccount),
\* maker token account not owned by the maker (InvalidTokenOwner), target
\* address not the one derived from the payload's seed and bump (PdaMismatch),
\* and the handler has created no record and moved no token by then.
C27_MakeRejectsInOrder ==
    \A c \in MakeCalls : \A signs \in {c.maker_is_signer, FALSE} :
    \A mint_b \in {c.token_b_mint, MakerKey} :
    \A ata \in {c.maker_token_a_ata, MissingAccount, Ata(TakerKey, MintA)} :
    \A wraps \in MakeWrapChoices(c) :
        LET call == [c EXCEPT !.maker_is_signer = signs, !.token_b_mint = mint_b,
                              !.maker_token_a_ata = ata]
            out == make_escrow(call, wraps)
            first ==
                IF ~call.maker_is_signer THEN InvalidMaker
                ELSE IF escrows[call.escrow_account].initialized THEN EscrowAlreadyExists
                ELSE IF AccountOwnerProgram(call.token_a_mint) # TokenProgramId
                        \/ AccountOwnerProgram(call.token_b_mint) # TokenProgramId
                     THEN InvalidTokenOwner
                ELSE IF call.maker_token_a_ata \notin TokenAccounts
                     THEN InvalidMakerTokenAccount
                ELSE IF OwnerOf(call.maker_token_a_ata) # call.maker_account
                     THEN InvalidTokenOwner
                ELSE IF ~call.ix.wellformed THEN "undecoded"
                ELSE IF call.escrow_account
                            # create_program_address(call.maker_account, call.ix.seed,
                                                     call.ix.bump)
                     THEN PdaMismatch
                ELSE "none"
        IN  first \notin {"undecoded", "none"} =>
                /\ out.res = first
                /\ out.escrows = escrows
                /\ out.balance = balance

\* C27: the same order, with the last condition reported as PdaMismatch when the
\* payload's seed and bump derive another address than the target, and as the
\* derivation's error InvalidSeeds when they derive no address at all.
C27_MakeRejectsInOrderOrInvalidSeeds ==
    \A c \in MakeCalls : \A signs \in {c.maker_is_signer, FALSE} :
    \A mint_b \in {c.token_b_mint, MakerKey} :
    \A ata \in {c.maker_token_a_ata, MissingAccount, Ata(TakerKey, MintA)} :
    \A wraps \in MakeWrapChoices(c) :
        LET call == [c EXCEPT !.maker_is_signer = signs, !.token_b_mint = mint_b,
                              !.maker_token_a_ata = ata]
            out == make_escrow(call, wraps)
            derives == /\ call.maker_account \in Users
                       /\ call.ix.bump \in {CanonicalBump - 1, CanonicalBump}
            first ==
                IF ~call.maker_is_signer THEN InvalidMaker
                ELSE IF escrows[call.escrow_account].initialized THEN EscrowAlreadyExists
                ELSE IF AccountOwnerProgram(call.token_a_mint) # TokenProgramId
                        \/ AccountOwnerProgram(call.token_b_mint) # TokenProgramId
                     THEN InvalidTokenOwner
                ELSE IF call.maker_token_a_ata \notin TokenAccounts
                     THEN InvalidMakerTokenAccount
                ELSE IF OwnerOf(call.maker_token_a_ata) # call.maker_account
                     THEN InvalidTokenOwner
                ELSE IF ~call.ix.wellformed THEN "undecoded"
                ELSE IF ~derives THEN InvalidSeeds
                ELSE IF call.escrow_account
                            # create_program_address(call.maker_account, call.ix.seed,
                                                     call.ix.bump)
                     THEN PdaMismatch
                ELSE "none"
        IN  first \notin {"undecoded", "none"} =>
                /\ out.res = first
                /\ out.escrows = escrows
                /\ out.balance = balance

\* a Make at an empty slot, all accounts in order, rejected for a bump that
\* derives no address: no record and nothing in the vault
C27_Witness ==
    /\ last.op = "make"
    /\ last.res = InvalidSeeds
    /\ ~escrows[SlotOfSeed(0)].initialized
    /\ balance[Ata(SlotOfSeed(0), MintA)] = 0


----------------------------------------------------------------------------
\* C28 as stated: a Take is rejected with the error of the first violated check
\* in the order: record address not derived from the maker passed and the
\* record's seed and bump (PdaMismatch), taker not signing (InvalidMaker), taker
\* token-A account of another mint, taker token-B account of another mint
\* (InvalidTokenMint), then for Partial the request above the remaining
\* token_a_amount before the token B owed above the taker's balance, for
\* DutchAuction the request above the taker's token-A balance before the offer
\* below the price (InsufficientFunds each), for Oracle InvalidEscrowType.
C28_TakeRejectsInOrder ==
    \A c \in TakeCalls : \A maker \in {c.maker_account, TakerKey, StrangerKey} :
    \A signs \in {c.taker_is_signer, FALSE} :
    \A taker_a \in {c.taker_token_a_ata, Ata(TakerKey, MintB)} :
    \A wraps \in WrapChoices(c) :
        LET call == [c EXCEPT !.maker_account = maker, !.taker_is_signer = signs,
                              !.taker_token_a_ata = taker_a]
            r == escrows[call.escrow_account]
            ix == call.ix
            derives == call.maker_account \in Users
                       /\ r.bump \in {CanonicalBump - 1, CanonicalBump}
            variant ==
                IF r.escrow_type = Partial
                THEN IF ~ix.wellformed THEN "undecoded"
                     ELSE IF ix.token_a_amount > r.token_a_amount THEN InsufficientFunds
                     ELSE IF r.token_a_amount = 0 THEN "fault"
                     ELSE IF PartialTokenB(ix.token_a_amount, r.token_a_amount,
                                           r.token_b_amount)
                                > balance[call.taker_token_b_ata]
                          THEN InsufficientFunds
                     ELSE "none"
                ELSE IF r.escrow_type = DutchAuction
                THEN IF ~ix.wellformed THEN "undecoded"
                     ELSE IF ix.token_a_amount > balance[call.taker_token_a_ata]
                          THEN InsufficientFunds
                     ELSE IF /\ r.end_price > r.start_price
                             /\ r.start_time < clock
                             /\ clock < r.end_time
                          THEN "fault"
                     ELSE IF ix.token_b_amount < get_required_token_b_amount(r, clock)
                          THEN InsufficientFunds
                     ELSE "none"
                ELSE IF r.escrow_type = Oracle THEN InvalidEscrowType
                ELSE "none"
            first ==
                IF ~r.initialized THEN "unread"
                ELSE IF call.escrow_account
                            # create_program_address(call.maker_account, r.seed, r.bump)
                     THEN PdaMismatch
                ELSE IF ~call.taker_is_signer THEN InvalidMaker
                ELSE IF call.taker_token_a_ata \notin TokenAccounts
                        \/ call.taker_token_b_ata \notin TokenAccounts
                     THEN "unread"
                ELSE IF MintOf(call.taker_token_a_ata) # r.token_a_mint THEN InvalidTokenMint
                ELSE IF MintOf(call.taker_token_b_ata) # r.token_b_mint THEN InvalidTokenMint
                ELSE variant
        IN  first \notin {"unread", "undecoded", "fault", "none"} =>
                take_escrow(call, wraps).res = first

\* C28: the same order, with the record-address check reported as PdaMismatch
\* when the maker passed and the record's seed and bump derive another address,
\* and as the derivation's error InvalidSeeds when they derive no address.
C28_TakeRejectsInOrderOrInvalidSeeds ==
    \A c \in TakeCalls : \A maker \in {c.maker_account, TakerKey, StrangerKey} :
    \A signs \in {c.taker_is_signer, FALSE} :
    \A taker_a \in {c.taker_token_a_ata, Ata(TakerKey, MintB)} :
    \A wraps \in WrapChoices(c) :
        LET call == [c EXCEPT !.maker_account = maker, !.taker_is_signer = signs,
                              !.taker_token_a_ata = taker_a]
            r == escrows[call.escrow_account]
            ix == call.ix
            derives == call.maker_account \in Users
                       /\ r.bump \in {CanonicalBump - 1, CanonicalBump}
            variant ==
                IF r.escrow_type = Partial
                THEN IF ~ix.wellformed THEN "undecoded"
                     ELSE IF ix.token_a_amount > r.token_a_amount THEN InsufficientFunds
                     ELSE IF r.token_a_amount = 0 THEN "fault"
                     ELSE IF PartialTokenB(ix.token_a_amount, r.token_a_amount,
                                           r.token_b_amount)
                                > balance[call.taker_token_b_ata]
                          THEN InsufficientFunds
                     ELSE "none"
                ELSE IF r.escrow_type = DutchAuction
                THEN IF ~ix.wellformed THEN "undecoded"
                     ELSE IF ix.token_a_amount > balance[call.taker_token_a_ata]
                          THEN InsufficientFunds
                     ELSE IF /\ r.end_price > r.start_price
                             /\ r.start_time < clock
                             /\ clock < r.end_time
                          THEN "fault"
                     ELSE IF ix.token_b_amount < get_required_token_b_amount(r, clock)
                          THEN InsufficientFunds
                     ELSE "none"
                ELSE IF r.escrow_type = Oracle THEN InvalidEscrowType
                ELSE "none"
            first ==
                IF ~r.initialized THEN "unread"
                ELSE IF ~derives THEN InvalidSeeds
                ELSE IF call.escrow_account
                            # create_program_address(call.maker_account, r.seed, r.bump)
                     THEN PdaMismatch
                ELSE IF ~call.taker_is_signer THEN InvalidMaker
                ELSE IF call.taker_token_a_ata \notin TokenAccounts
                        \/ call.taker_token_b_ata \notin TokenAccounts
                     THEN "unread"
                ELSE IF MintOf(call.taker_token_a_ata) # r.token_a_mint THEN InvalidTokenMint
                ELSE IF MintOf(call.taker_token_b_ata) # r.token_b_mint THEN InvalidTokenMint
                ELSE variant
        IN  first \notin {"unread", "undecoded", "fault", "none"} =>
                take_escrow(call, wraps).res = first

\* a request above what remains of a Partial record with nothing left, rejected
\* by the first of the variant's checks, before the share is computed
C28_Witness ==
    /\ last.op = "take"
    /\ last.res = InsufficientFunds
    /\ escrows[SlotOfSeed(0)].initialized
    /\ escrows[SlotOfSeed(0)].escrow_type = Partial
    /\ escrows[SlotOfSeed(0)].token_a_amount = 0


----------------------------------------------------------------------------
\* C29: a Take on a DutchAuction record that passes the common checks with a
\* payload that decodes fails with InsufficientFunds whenever the payload's
\* token_a_amount exceeds the balance of the taker's token-A account, whatever
\* the vault holds, and changes nothing; so every successful Take of a positive
\* amount from a DutchAuction record is by a taker who held at least that amount
\* of token A before it.
C29_DutchRequestAboveTakerBalance ==
    /\ [](\A c \in TakeCalls : \A wraps \in WrapChoices(c) :
             (/\ TakeCommonPreconditions(c)
              /\ c.ix.wellformed
              /\ escrows[c.escrow_account].escrow_type = DutchAuction
              /\ c.ix.token_a_amount > balance[c.taker_token_a_ata]) =>
                 LET out == Atomic(take_escrow(c, wraps))
                 IN  /\ out.res = InsufficientFunds
                     /\ out.escrows = escrows
                     /\ out.balance = balance)
    /\ [][(/\ last'.op = "take"
           /\ last'.res = Ok
           /\ escrows[last'.take.escrow_account].escrow_type = DutchAuction
           /\ last'.take.ix.token_a_amount > 0) =>
              /\ balance[last'.take.taker_token_a_ata] > 0
              /\ balance[last'.take.taker_token_a_ata] >= last'.take.ix.token_a_amount]_vars

\* a taker holding no token A refused at a DutchAuction escrow whose vault is
\* funded and whose price the taker can pay
C29_Witness ==
    /\ last.op = "take"
    /\ last.res = InsufficientFunds
    /\ escrows[SlotOfSeed(0)].initialized
    /\ escrows[SlotOfSeed(0)].escrow_type = DutchAuction
    /\ balance[Ata(TakerKey, MintA)] = 0
    /\ balance[Ata(SlotOfSeed(0), MintA)] > 0
    /\ balance[Ata(TakerKey, MintB)] >= escrows[SlotOfSeed(0)].start_price


----------------------------------------------------------------------------
\* C30: for a DutchAuction record with end_price > start_price, at a time strictly
\* between start_time and end_time the price is computed without error as
\* start_price + floor((end_price - start_price) * elapsed / span): a Take with
\* the declared accounts that requests no more token A than the taker and the
\* vault hold and offers at least that price settles and charges that price.
C30_ReversedAuctionPriceRises ==
    \A c \in TakeCalls : \A wraps \in WrapChoices(c) :
        LET r == escrows[c.escrow_account]
            price == r.start_price
                     + ((r.end_price - r.start_price) * (clock - r.start_time))
                           \div (r.end_time - r.start_time)
            out == Atomic(take_escrow(c, wraps))
        IN  (/\ TakeCommonPreconditions(c)
             /\ TakeAsDeclared(c)
             /\ c.ix.wellformed
             /\ r.escrow_type = DutchAuction
             /\ r.end_price > r.start_price
             /\ r.start_time < clock
             /\ clock < r.end_time
             /\ c.ix.token_a_amount <= balance[c.taker_token_a_ata]
             /\ c.ix.token_a_amount <= balance[c.escrow_token_a_ata]
             /\ c.ix.token_b_amount >= price
             /\ balance[c.taker_token_b_ata] >= price) =>
                /\ out.res = Ok
                /\ out.balance[c.taker_token_b_ata] = balance[c.taker_token_b_ata] - price


----------------------------------------------------------------------------
\* C31: for an auction record with start_price >= end_price and start_time <=
\* end_time, all within the unsigned word, the price read at any time is the
\* exact value: strictly inside the auction the span is positive, the reduction
\* floor((start_price - end_price) * elapsed / span) does not exceed the price
\* drop, so it survives the narrowing to the word, and the price is start_price
\* minus it also when the product itself exceeds the word; with a zero duration
\* no division is evaluated and the price is start_price up to start_time and
\* end_price after it.
C31_DutchPriceExactInWord ==
    LET r == escrows[SlotOfSeed(0)]
        elapsed == clock - r.start_time
        span == r.end_time - r.start_time
        drop == r.start_price - r.end_price
    IN  (/\ r.start_price >= r.end_price
         /\ r.start_price <= U64_MAX
         /\ r.start_time <= r.end_time
         /\ r.end_time <= U64_MAX) =>
            /\ (r.start_time < clock /\ clock < r.end_time) =>
                  /\ span > 0
                  /\ (drop * elapsed) \div span <= drop
                  /\ quote = r.start_price - (drop * elapsed) \div span
            /\ span = 0 =>
                  quote = IF clock <= r.start_time THEN r.start_price ELSE r.end_price
            /\ r.end_price <= quote
            /\ quote <= r.start_price

\* a price read inside an auction whose product of price drop and elapsed time
\* exceeds the word
C31_Witness ==
    /\ last.op = "quote"
    /\ escrows[SlotOfSeed(0)].start_time < clock
    /\ clock < escrows[SlotOfSeed(0)].end_time
    /\ (escrows[SlotOfSeed(0)].start_price - escrows[SlotOfSeed(0)].end_price)
           * (clock - escrows[SlotOfSeed(0)].start_time) > U64_MAX
    /\ quote < escrows[SlotOfSeed(0)].start_price
    /\ quote > escrows[SlotOfSeed(0)].end_price


----------------------------------------------------------------------------
\* C32: while a slot holds an Oracle record, no operation lowers the balance of
\* that escrow's token-A vault, and the record stays an Oracle record; so the
\* token A deposited by its Make never leaves the vault.
C32_OracleVaultNeverDecreases ==
    [][\A slot \in EscrowSlots :
          (escrows[slot].initialized /\ escrows[slot].escrow_type = Oracle) =>
              /\ balance'[Ata(slot, escrows[slot].token_a_mint)]
                     >= balance[Ata(slot, escrows[slot].token_a_mint)]
              /\ escrows'[slot].initialized
              /\ escrows'[slot].escrow_type = Oracle]_vars

\* an Oracle escrow whose vault still holds the deposit after a refused Take,
\* some time after its Make
C32_Witness ==
    /\ escrows[SlotOfSeed(0)].initialized
    /\ escrows[SlotOfSeed(0)].escrow_type = Oracle
    /\ balance[Ata(SlotOfSeed(0), MintA)] = escrows[SlotOfSeed(0)].token_a_amount
    /\ balance[Ata(SlotOfSeed(0), MintA)] > 0
    /\ clock > 0
    /\ last.op = "take"
    /\ last.res = InvalidEscrowType


----------------------------------------------------------------------------
\* C33: with Takes run one after another, by the taker and by the maker acting as
\* a taker, in every reachable state the token-A vault of a Partial escrow holds
\* exactly the record's remaining token_a_amount, which is never negative; and
\* in every step the vault goes down by exactly what the record goes down by and
\* never up, so the token A released in total is the deposit less what remains
\* and never exceeds the deposit.
C33_PartialVaultMatchesRecord ==
    /\ [](\A slot \in EscrowSlots :
             (escrows[slot].initialized /\ escrows[slot].escrow_type = Partial) =>
                 /\ balance[Ata(slot, escrows[slot].token_a_mint)]
                        = escrows[slot].token_a_amount
                 /\ escrows[slot].token_a_amount >= 0)
    /\ [][\A slot \in EscrowSlots :
             (escrows[slot].initialized /\ escrows[slot].escrow_type = Partial) =>
                 LET vault == Ata(slot, escrows[slot].token_a_mint)
                 IN  /\ balance'[vault] <= balance[vault]
                     /\ balance[vault] - balance'[vault]
                            = escrows[slot].token_a_amount - escrows'[slot].token_a_amount
                     /\ balance[vault] - balance'[vault] <= escrows[slot].token_a_amount]_vars

----------------------------------------------------------------------------
\* C34: every successful Take with the declared accounts that requests a positive
\* token_a_amount from a Partial record with token_b_amount > 0, and whose exact
\* share remaining_b * requested_a / remaining_a is at least 1, credits a
\* positive amount of token B to the maker.
C34_PartialTakeIsPaid ==
    [][(/\ last'.op = "take"
        /\ last'.res = Ok
        /\ TakeAsDeclared(last'.take)
        /\ escrows[last'.take.escrow_account].escrow_type = Partial
        /\ last'.take.ix.token_a_amount > 0
        /\ escrows[last'.take.escrow_account].token_b_amount > 0
        /\ (escrows[last'.take.escrow_account].token_b_amount * last'.take.ix.token_a_amount)
               \div escrows[last'.take.escrow_account].token_a_amount >= 1) =>
           /\ balance'[last'.take.maker_token_b_ata] > balance[last'.take.maker_token_b_ata]
           /\ balance'[last'.take.taker_token_b_ata] < balance[last'.take.taker_token_b_ata]]_vars


----------------------------------------------------------------------------
\* C35: in a Partial Take that passes the common checks with a request of at most
\* the remaining token_a_amount, neither requested_a * 10000 nor remaining_b *
\* percentage leaves the 64-bit word, the Take does not fault, and when it
\* succeeds with the declared accounts the token B moved to the maker is
\* floor(remaining_b * floor(requested_a * 10000 / remaining_a) / 10000), which
\* is at most remaining_b.
C35_PartialProductsFitTheWord ==
    \A c \in TakeCalls : \A wraps \in WrapChoices(c) :
        LET r == escrows[c.escrow_account]
            percentage == (c.ix.token_a_amount * BASIS_POINTS) \div r.token_a_amount
            owed_b == (r.token_b_amount * percentage) \div BASIS_POINTS
            out == Atomic(take_escrow(c, wraps))
        IN  (/\ TakeCommonPreconditions(c)
             /\ c.ix.wellformed
             /\ r.escrow_type = Partial
             /\ r.token_a_amount > 0
             /\ c.ix.token_a_amount <= r.token_a_amount) =>
                /\ c.ix.token_a_amount * BASIS_POINTS <= U64_MAX
                /\ r.token_b_amount * percentage <= U64_MAX
                /\ out.res # ProgramAbort
                /\ (out.res = Ok /\ TakeAsDeclared(c)) =>
                      /\ out.balance[c.maker_token_b_ata]
                             = balance[c.maker_token_b_ata] + owed_b
                      /\ owed_b <= r.token_b_amount


----------------------------------------------------------------------------
\* C36: no Take divides by zero: a Take that passes the common checks on a Partial
\* record whose token_a_amount is 0 ends with one of the program's own error
\* codes, whatever it requests, and a Take on a DutchAuction record of duration 0
\* does not abort.
C36_NoDivisionByZero ==
    \A c \in TakeCalls : \A wraps \in WrapChoices(c) :
        LET r == escrows[c.escrow_account]
            out == Atomic(take_escrow(c, wraps))
        IN  (TakeCommonPreconditions(c) /\ c.ix.wellformed) =>
                /\ (r.escrow_type = Partial /\ r.token_a_amount = 0) =>
                      out.res \in {InvalidMaker, EscrowAlreadyExists, PdaMismatch,
                                   InvalidTokenOwner, InvalidMakerTokenAccount,
                                   InvalidTokenMint, InvalidEscrowType, InsufficientFunds}
                /\ (r.escrow_type = DutchAuction /\ r.end_time = r.start_time) =>
                      out.res # ProgramAbort


----------------------------------------------------------------------------
\* C37: for a DutchAuction escrow the token A released from its vault since its
\* Make never exceeds the record's token_a_amount, and every successful Take on
\* it moves exactly the record's token_a_amount from the vault to the taker.
C37_DutchReleasesRecordedAmount ==
    /\ [](\A slot \in EscrowSlots :
             (escrows[slot].initialized /\ escrows[slot].escrow_type = DutchAuction) =>
                 /\ balance[Ata(slot, escrows[slot].token_a_mint)] >= 0
                 /\ balance[Ata(slot, escrows[slot].token_a_mint)]
                        <= escrows[slot].token_a_amount)
    /\ [][(/\ last'.op = "take"
           /\ last'.res = Ok
           /\ TakeAsDeclared(last'.take)
           /\ escrows[last'.take.escrow_account].escrow_type = DutchAuction) =>
              LET c == last'.take
                  r == escrows[c.escrow_account]
              IN  /\ balance[c.escrow_token_a_ata] - balance'[c.escrow_token_a_ata]
                         = r.token_a_amount
                  /\ balance'[c.taker_token_a_ata] - balance[c.taker_token_a_ata]
                         = r.token_a_amount]_vars


----------------------------------------------------------------------------
\* C38: the settlement path of a Take follows the record's variant alone: a Take
\* whose payload has its variant byte replaced by any of 0, 1, 2, 3 has the same
\* result and leaves the same records and balances, and on a Simple record every
\* Take has the same result and effect whatever bytes follow the dispatch tag.
C38_PathFollowsRecordVariant ==
    \A d \in DispatchData : \A wraps \in BOOLEAN :
        LET mc == DeclaredMake(SlotOfSeed(0), ShortMakeIx)
            tc == DeclaredTake(SlotOfSeed(0), NoTakeIx)
            retag(v) == <<d[1], v>> \o SubSeq(d, 3, Len(d))
            run(data) == Atomic(process_instruction(mc, tc, data, wraps).out)
        IN  (Len(d) >= 1 /\ d[1] = 2) =>
                /\ (Len(d) = 1 + TakeEscrowIx_LEN /\ d[2] \in 0 .. 3) =>
                      \A v \in 0 .. 3 : run(retag(v)) = run(d)
                /\ (/\ escrows[SlotOfSeed(0)].initialized
                    /\ escrows[SlotOfSeed(0)].escrow_type = Simple) =>
                      \A other \in DispatchData :
                          (Len(other) >= 1 /\ other[1] = 2) => run(other) = run(d)

\* a Partial record filled by a Take whose payload carries the DutchAuction
\* variant byte
C38_Witness ==
    /\ last.op = "take"
    /\ last.res = Ok
    /\ Len(wire.bytes) = 1 + TakeEscrowIx_LEN
    /\ wire.bytes[2] = DutchAuction
    /\ escrows[SlotOfSeed(0)].initialized
    /\ escrows[SlotOfSeed(0)].escrow_type = Partial
    /\ balance[Ata(TakerKey, MintA)] > MaxAmountA - 1


----------------------------------------------------------------------------
\* Two escrows of one maker under different seeds. Only the first has a token-A
\* vault; the instructions on the second name the first one's vault.

OtherEscrow == create_program_address(MakerKey, MaxSeed + 1, CanonicalBump)

IsolationMakeCalls ==
    {DeclaredMake(SlotOfSeed(0), ix) : ix \in MakeIxs(0)}
    \cup {[DeclaredMake(OtherEscrow, MakeIx(type, 1, 1, MaxSeed + 1, CanonicalBump, 0, 0))
              EXCEPT !.escrow_token_a_ata = Ata(SlotOfSeed(0), MintA)] :
             type \in {Simple, Partial}}

IsolationTakeCalls ==
    {DeclaredTake(SlotOfSeed(0), ix) : ix \in TakeIxs}
    \cup {[DeclaredTake(OtherEscrow, ix)
              EXCEPT !.escrow_token_a_ata = Ata(SlotOfSeed(0), MintA)] : ix \in TakeIxs}

NextIsolation ==
    \/ \E c \in IsolationMakeCalls : \E wraps \in MakeWrapChoices(c) : Make(c, wraps)
    \/ \E c \in IsolationTakeCalls : \E wraps \in WrapChoices(c) : Take(c, wraps)

SpecIsolation == Init /\ [][NextIsolation]_vars

\* C39: escrows under different (owner, seed) pairs are isolated: a Make or Take
\* on one of the two escrows, successful or failed, leaves the other escrow's
\* record and the balance of the other escrow's vault unchanged.
C39_EscrowsIsolated ==
    [][/\ (last'.op = "make" /\ last'.res = Ok /\ last'.make.escrow_account = OtherEscrow) =>
            /\ escrows'[SlotOfSeed(0)] = escrows[SlotOfSeed(0)]
            /\ balance'[Ata(SlotOfSeed(0), MintA)] = balance[Ata(SlotOfSeed(0), MintA)]
       /\ (last'.op = "take" /\ last'.res = Ok /\ last'.take.escrow_account = OtherEscrow) =>
            /\ escrows'[SlotOfSeed(0)] = escrows[SlotOfSeed(0)]
            /\ balance'[Ata(SlotOfSeed(0), MintA)] = balance[Ata(SlotOfSeed(0), MintA)]
       /\ (/\ last'.res = Ok
           /\ \/ last'.op = "make" /\ last'.make.escrow_account = SlotOfSeed(0)
              \/ last'.op = "take" /\ last'.take.escrow_account = SlotOfSeed(0)) =>
            escrows'[OtherEscrow] = escrows[OtherEscrow]
       /\ last'.res # Ok => escrows' = escrows /\ balance' = balance]_vars


----------------------------------------------------------------------------
\* C40: inside the Take handler, before any host rollback, a Take that fails
\* with one of the protocol's own error codes has moved no tokens and written no
\* record field, and a record differs from its state before the Take only when
\* the Take is a Partial one whose two transfers have both succeeded.
C40_ProtocolFailuresPrecedeEffects ==
    \A c \in TakeCalls : \A wraps \in WrapChoices(c) :
        LET out == take_escrow(c, wraps)
            before == escrows[c.escrow_account]
            after == out.escrows[c.escrow_account]
        IN  /\ out.res \in {InvalidMaker, EscrowAlreadyExists, PdaMismatch, InvalidTokenOwner,
                            InvalidMakerTokenAccount, InvalidTokenMint, InvalidEscrowType,
                            InsufficientFunds} =>
                  out.escrows = escrows /\ out.balance = balance
            /\ out.escrows # escrows =>
                  /\ out.res = Ok
                  /\ before.escrow_type = Partial
                  /\ after.token_a_amount = before.token_a_amount - c.ix.token_a_amount
                  /\ out.balance[c.maker_token_b_ata] - balance[c.maker_token_b_ata]
                        \in {0, before.token_b_amount - after.token_b_amount}

\* a Partial escrow has just been filled, one further Take on it is refused with
\* InsufficientFunds, and another one fails in its second transfer after the
\* first has moved tokens out of the vault
C40_Witness ==
    /\ last.op = "take"
    /\ last.res = Ok
    /\ escrows[SlotOfSeed(0)].initialized
    /\ escrows[SlotOfSeed(0)].escrow_type = Partial
    /\ \E c \in TakeCalls : take_escrow(c, FALSE).res = InsufficientFunds
    /\ \E c \in TakeCalls :
          /\ take_escrow(c, FALSE).res = TokenProgramError
          /\ take_escrow(c, FALSE).balance # balance
          /\ take_escrow(c, FALSE).escrows = escrows

====
